---- MODULE Spec2Model ----
(***************************************************************************)
(* Verification model of the ComfyUI-Install automation scripts: the       *)
(* worktree workflow validators (LTX, Wan2, generic), the Proper and       *)
(* Simple video validators, the video workflow orchestrator and the        *)
(* robust browser automation fallback chain.                               *)
(*                                                                         *)
(* Python strings are TLA+ strings; Python None is the string None; a      *)
(* call that can raise yields a record [exc, ret] whose exc field names    *)
(* the exception ("" when the call returned).                              *)
(***************************************************************************)
EXTENDS Integers, Sequences, FiniteSets, TLC

VARIABLES
    \* ---- filesystem resolvers (worktree validators) ----
    fs,             \* set of paths that exist on disk
    analyzer,       \* which worktree validator is running: "ltx", "generic", "wan2"
    model_ref,      \* the ModelReference handed to resolve_model_path
    full_path,      \* outcome of resolve_model_path: [exc, ret]
    \* ---- workflow parsers ----
    data,           \* the content of the workflow file (a JSON document, or unreadable)
    parsed,         \* outcome of ProperVideoValidator.parse_workflow
    simple_out,     \* outcome of SimpleVideoValidator parse_workflow + extract_model_references
    wt_result,      \* outcome of the worktree validators' validate_workflow
    \* ---- orchestrator stdout scraping ----
    output,         \* a validator's stdout, a sequence of lines
    worktree_path,  \* the worktree the validator ran in
    metrics,        \* what _parse_validator_output returned for it
    \* ---- orchestrator thread-pool fan-out ----
    phase,          \* priority group being executed: "high", "medium", "low", "returned"
    pool,           \* task name -> "queued" | "submitted" | "running" | "done" | "collected"
    future,         \* task name -> outcome held by the task's future
    results,        \* the list execute_parallel_validation builds
    printed,        \* task name -> counts the validator script printed
    \* ---- Proper validator pipeline ----
    workflows,      \* discovered workflow documents, in discovery order
    all_results,    \* per-workflow results collected by validate_all_workflows
    summary,        \* the aggregated summary
    main_out,       \* what main did with it: [status, saved]
    models,         \* outcome of ProperVideoValidator.extract_model_references
    \* ---- robust browser automation ----
    available,      \* set of libraries whose import succeeded
    rb_pc,          \* position in detect_and_setup_best_method
    automation_method,
    partial,        \* which handles of the object are set (handle -> BOOLEAN)
    tried,          \* setup attempts so far, in order: [method, success]
    cleaned,        \* methods cleanup_partial_setup was called for, in order
    rb_out,         \* outcome of detect_and_setup_best_method: [exc, ret]
    \* ---- ComfyUIBrowserAutomation.setup ----
    import_flags,   \* the module's *_AVAILABLE flags that are True
    preferred_method,
    setup_calls,    \* the setup_* methods that ran, in order: [method, success]
    bas_method,     \* self.automation_method of ComfyUIBrowserAutomation
    setup_out,      \* outcome of ComfyUIBrowserAutomation.setup: [exc, ret]
    \* ---- repair automation ----
    rp_config,      \* self.config: dry_run_first, backup_before_repair
    repairs_needed, \* what diagnose_issues returned: action names, by severity
    selected_actions, \* the actions the running command loops over
    rp_pc,          \* [cmd, step, i]: the command of main, and where it stands
    rp_self,        \* [repair_history, backups, commands]: the object's history
                    \* and the backups / shell commands it has caused so far
    rp_log,         \* input() answers and execute_repair calls, in order
    \* ---- dependency resolver ----
    dependencies,   \* the missing dependencies scan_dependencies found
    auto_install,   \* the auto_install argument or-ed with config["auto_install"]
    dr_pc,          \* the priority group auto_resolve_dependencies is at
    dr_log,         \* input() answers and pip installs, in order
    \* ---- one call of execute_validation_task ----
    et_task,        \* the ValidationTask passed in
    et_run,         \* what subprocess.run does in this call
    et_result,      \* outcome of the call: [exc, ret]
    \* ---- one call of check_model_exists ----
    ck_validator,   \* whose method is called: "proper" or "simple"
    ck_model_paths, \* self.model_paths, in the configured order
    ck_model_info,  \* the reference passed in
    ck_out,         \* what the call returned: [exists, found_paths]
    \* ---- generic validator: validate_all_workflows ----
    gv_workflows,   \* the candidate workflows discover_workflows returned
    gv_results,     \* the results list
    gv_skipped,     \* skipped_count
    gv_out,         \* outcome of validate_all_workflows: [exc, ret]
    \* ---- health monitor ----
    hm_clock,       \* the wall clock, in ticks
    hm_alerts,      \* self.alerts
    hm_history,     \* len(self.health_history)
    hm_last         \* the results of the latest run_health_check

resolveVars == <<fs, analyzer, model_ref, full_path>>
parseVars   == <<data, parsed, simple_out, wt_result>>
scrapeVars  == <<output, worktree_path, metrics>>
orchVars    == <<phase, pool, future, results, printed>>
properVars  == <<workflows, all_results, summary, main_out, models>>
robustVars  == <<available, rb_pc, automation_method, partial, tried, cleaned, rb_out>>
setupVars   == <<import_flags, preferred_method, setup_calls, bas_method, setup_out>>
repairVars  == <<rp_config, repairs_needed, selected_actions, rp_pc, rp_self, rp_log>>
depVars     == <<dependencies, auto_install, dr_pc, dr_log>>
taskVars    == <<et_task, et_run, et_result>>
checkVars   == <<ck_validator, ck_model_paths, ck_model_info, ck_out>>
genericVars == <<gv_workflows, gv_results, gv_skipped, gv_out>>
healthVars  == <<hm_clock, hm_alerts, hm_history, hm_last>>
toolVars    == <<setupVars, repairVars, depVars, taskVars, checkVars, genericVars, healthVars>>

vars == <<resolveVars, parseVars, scrapeVars, orchVars, properVars, robustVars, toolVars>>

None == "None"
Idle == "idle"

\* The variable groups a specification does not exercise stay at Idle.
IdleResolve == fs = Idle /\ analyzer = Idle /\ model_ref = Idle /\ full_path = Idle
IdleParse   == data = Idle /\ parsed = Idle /\ simple_out = Idle /\ wt_result = Idle
IdleScrape  == output = Idle /\ worktree_path = Idle /\ metrics = Idle
IdleOrch    == phase = Idle /\ pool = Idle /\ future = Idle /\ results = Idle /\ printed = Idle
IdleProper  == /\ workflows = Idle /\ all_results = Idle /\ summary = Idle
               /\ main_out = Idle /\ models = Idle
IdleRobust  == /\ available = Idle /\ rb_pc = Idle /\ automation_method = Idle
               /\ partial = Idle /\ tried = Idle /\ cleaned = Idle /\ rb_out = Idle
IdleSetup   == /\ import_flags = Idle /\ preferred_method = Idle /\ setup_calls = Idle
               /\ bas_method = Idle /\ setup_out = Idle
IdleRepair  == /\ rp_config = Idle /\ repairs_needed = Idle /\ selected_actions = Idle
               /\ rp_pc = Idle /\ rp_self = Idle /\ rp_log = Idle
IdleDep     == dependencies = Idle /\ auto_install = Idle /\ dr_pc = Idle /\ dr_log = Idle
IdleTask    == et_task = Idle /\ et_run = Idle /\ et_result = Idle
IdleCheck   == /\ ck_validator = Idle /\ ck_model_paths = Idle /\ ck_model_info = Idle
               /\ ck_out = Idle
IdleGeneric == /\ gv_workflows = Idle /\ gv_results = Idle /\ gv_skipped = Idle
               /\ gv_out = Idle
IdleHealth  == hm_clock = Idle /\ hm_alerts = Idle /\ hm_history = Idle /\ hm_last = Idle
IdleTool    == /\ IdleSetup /\ IdleRepair /\ IdleDep /\ IdleTask /\ IdleCheck /\ IdleGeneric
               /\ IdleHealth

Returned(v) == [exc |-> "", ret |-> v]
Raised(e)   == [exc |-> e, ret |-> None]

(***************************************************************************)
(* String helpers (Python str methods).                                    *)
(***************************************************************************)
UpperChars == <<"A","B","C","D","E","F","G","H","I","J","K","L","M",
                "N","O","P","Q","R","S","T","U","V","W","X","Y","Z">>
LowerChars == <<"a","b","c","d","e","f","g","h","i","j","k","l","m",
                "n","o","p","q","r","s","t","u","v","w","x","y","z">>

LowerChar(c) ==
    IF \E i \in 1..26 : UpperChars[i] = c
    THEN LowerChars[CHOOSE i \in 1..26 : UpperChars[i] = c]
    ELSE c

RECURSIVE lower(_)
lower(s) == IF s = "" THEN "" ELSE LowerChar(Head(s)) \o lower(Tail(s))

\* pat in s
Contains(s, pat) ==
    \E i \in 1..(Len(s) - Len(pat) + 1) : SubSeq(s, i, i + Len(pat) - 1) = pat

\* s.endswith(suf)
endswith(s, suf) ==
    Len(s) >= Len(suf) /\ SubSeq(s, Len(s) - Len(suf) + 1, Len(s)) = suf

\* s.rfind(c) as a 1-based index, 0 when c does not occur
rfind(s, c) ==
    IF \E i \in 1..Len(s) : SubSeq(s, i, i) = c
    THEN CHOOSE i \in 1..Len(s) :
            /\ SubSeq(s, i, i) = c
            /\ \A j \in (i+1)..Len(s) : SubSeq(s, j, j) # c
    ELSE 0

(***************************************************************************)
(* pathlib.  A path is [dir, name]; str(path) is dir/name.                 *)
(***************************************************************************)
Join(a, b) == a \o "/" \o b
PathOf(d, n) == [dir |-> d, name |-> n]
str(path) == Join(path.dir, path.name)
exists(path, files) == str(path) \in files

\* PurePath.suffix: the text from the last dot of the final component, if
\* that dot is neither its first nor its last character
suffix(path) ==
    LET i == rfind(path.name, ".")
    IN  IF 1 < i /\ i < Len(path.name)
        THEN SubSeq(path.name, i, Len(path.name))
        ELSE ""

with_suffix(path, ext) ==
    LET old == suffix(path)
    IN  PathOf(path.dir, SubSeq(path.name, 1, Len(path.name) - Len(old)) \o ext)

(***************************************************************************)
(* Filesystem resolvers of the worktree validators.                        *)
(***************************************************************************)
model_base_paths ==
    << "/home/ned/ComfyUI-Install/models",
       "/home/ned/Models",
       "/home/ned/Projects/AI_ML/SwarmUI/models" >>

LTX_supported_extensions == {".safetensors", ".ckpt", ".pth", ".pt", ".bin"}
Generic_supported_extensions ==
    {".safetensors", ".ckpt", ".pth", ".pt", ".bin", ".onnx", ".gguf"}
Wan2_supported_extensions ==
    {".safetensors", ".ckpt", ".pth", ".pt", ".bin", ".gguf"}

\* Concatenation of f[1], ..., f[n] for a sequence f of sequences
RECURSIVE Flatten(_)
Flatten(f) == IF f = <<>> THEN <<>> ELSE Head(f) \o Flatten(Tail(f))

\* "Add common model directories": three probes per base path
CommonSearchPaths(ref) ==
    Flatten([b \in 1..Len(model_base_paths) |->
        << PathOf(Join(model_base_paths[b], ref.model_type), ref.model_name),
           PathOf(Join(model_base_paths[b], ref.model_type \o "s"), ref.model_name),
           PathOf(model_base_paths[b], ref.model_name) >>])

\* Wan2 adds the wan2 and wan2.1 subtrees of each base path
Wan2CommonSearchPaths(ref) ==
    Flatten([b \in 1..Len(model_base_paths) |->
        << PathOf(Join(model_base_paths[b], ref.model_type), ref.model_name),
           PathOf(Join(model_base_paths[b], ref.model_type \o "s"), ref.model_name),
           PathOf(Join(Join(model_base_paths[b], "wan2"), ref.model_type), ref.model_name),
           PathOf(Join(Join(model_base_paths[b], "wan2.1"), ref.model_type), ref.model_name),
           PathOf(model_base_paths[b], ref.model_name) >>])

Min(S) == CHOOSE x \in S : \A y \in S : x <= y

\* Indices of the search paths that exist as given
ExactHits(search_paths, files) ==
    {i \in 1..Len(search_paths) : exists(search_paths[i], files)}

\* Indices of the suffix-less search paths with an existing extension variant
VariantHits(search_paths, files, exts) ==
    {i \in 1..Len(search_paths) :
        /\ suffix(search_paths[i]) = ""
        /\ \E ext \in exts : exists(with_suffix(search_paths[i], ext), files)}

\* The two probe loops.  supported_extensions is a Python set of strings,
\* whose iteration order is not fixed, so when several variants of the same
\* search path exist any of them can be the one returned.
ProbeSearchPaths(search_paths, files, exts) ==
    IF ExactHits(search_paths, files) # {}
    THEN {Returned(str(search_paths[Min(ExactHits(search_paths, files))]))}
    ELSE IF VariantHits(search_paths, files, exts) # {}
    THEN LET sp == search_paths[Min(VariantHits(search_paths, files, exts))]
         IN  {Returned(str(with_suffix(sp, ext))) :
                ext \in {e \in exts : exists(with_suffix(sp, e), files)}}
    ELSE {Returned(None)}

\* The model types whose branch builds its list from the name p, which is
\* bound nowhere in the method or the module: evaluating it raises NameError
LTX_p_branches == {"checkpoint", "lora", "vae", "controlnet", "clip"}
Generic_p_branches ==
    {"checkpoint", "diffusion_model", "lora", "vae", "controlnet", "upscale",
     "unknown_model", "possible_model"}
Wan2_p_categories ==
    {"wan2_transformer", "wan2_vae", "wan2_clip", "wan2_controlnet",
     "wan2_camera", "wan2_fun", "wan2_t2v", "wan2_i2v"}
Wan2_p_branches == {"checkpoint", "lora", "vae", "controlnet", "upscale"}

LTX_resolve_model_path(ref, files) ==
    IF ref.model_type \in LTX_p_branches
    THEN {Raised("NameError")}
    ELSE ProbeSearchPaths(CommonSearchPaths(ref), files, LTX_supported_extensions)

Generic_resolve_model_path(ref, files) ==
    IF ref.model_type \in Generic_p_branches
    THEN {Raised("NameError")}
    ELSE ProbeSearchPaths(CommonSearchPaths(ref), files, Generic_supported_extensions)

Wan2_resolve_model_path(ref, files) ==
    IF ref.model_category \in Wan2_p_categories \/ ref.model_type \in Wan2_p_branches
    THEN {Raised("NameError")}
    ELSE ProbeSearchPaths(Wan2CommonSearchPaths(ref), files, Wan2_supported_extensions)

\* ---- bounded inputs of the resolver specification ----
ModelNames == {"a", "a.ckpt"}
ModelTypes == {"checkpoint", "unet", "scheduler"}
ModelCategories == {"general", "wan2_vae"}
FileUniverse ==
    { "/home/ned/Models/unet/a",
      "/home/ned/Models/unets/a.ckpt",
      "/home/ned/ComfyUI-Install/models/a.pt",
      "/home/ned/ComfyUI-Install/models/a.ckpt",
      "/home/ned/Models/wan2/scheduler/a.gguf",
      "/home/ned/Projects/AI_ML/SwarmUI/models/schedulers/a",
      "/home/ned/Models/checkpoints/a.ckpt" }

Pending == [exc |-> "pending", ret |-> None]

InitResolve ==
    /\ fs \in SUBSET FileUniverse
    /\ analyzer \in {"ltx", "generic", "wan2"}
    /\ model_ref \in [model_type : ModelTypes, model_name : ModelNames,
                      model_category : ModelCategories]
    /\ (analyzer # "wan2" => model_ref.model_category = "general")
    /\ full_path = Pending
    /\ IdleParse /\ IdleScrape /\ IdleOrch /\ IdleProper /\ IdleRobust /\ IdleTool

LTXResolve ==
    /\ analyzer = "ltx" /\ full_path = Pending
    /\ full_path' \in LTX_resolve_model_path(model_ref, fs)
    /\ UNCHANGED <<fs, analyzer, model_ref>>
    /\ UNCHANGED <<parseVars, scrapeVars, orchVars, properVars, robustVars, toolVars>>

GenericResolve ==
    /\ analyzer = "generic" /\ full_path = Pending
    /\ full_path' \in Generic_resolve_model_path(model_ref, fs)
    /\ UNCHANGED <<fs, analyzer, model_ref>>
    /\ UNCHANGED <<parseVars, scrapeVars, orchVars, properVars, robustVars, toolVars>>

Wan2Resolve ==
    /\ analyzer = "wan2" /\ full_path = Pending
    /\ full_path' \in Wan2_resolve_model_path(model_ref, fs)
    /\ UNCHANGED <<fs, analyzer, model_ref>>
    /\ UNCHANGED <<parseVars, scrapeVars, orchVars, properVars, robustVars, toolVars>>

NextResolve == LTXResolve \/ GenericResolve \/ Wan2Resolve

SpecResolve == InitResolve /\ [][NextResolve]_vars

\* Every candidate the probe loops can look at, for a reference whose
\* branch builds no list of its own
ProbeCandidates(a, ref) ==
    LET sps  == IF a = "wan2" THEN Wan2CommonSearchPaths(ref) ELSE CommonSearchPaths(ref)
        exts == IF a = "ltx" THEN LTX_supported_extensions
                ELSE IF a = "generic" THEN Generic_supported_extensions
                ELSE Wan2_supported_extensions
    IN  {str(sps[i]) : i \in 1..Len(sps)} \cup
        {str(with_suffix(sps[i], e)) : i \in {j \in 1..Len(sps) : suffix(sps[j]) = ""}, e \in exts}

\* C1 (as claimed): resolve_model_path never raises, whatever the model
\* type; it returns an existing candidate, or None when none of the
\* candidates exists.
Cex_C1 ==
    full_path # Pending =>
        /\ full_path.exc = ""
        /\ full_path.ret # None => full_path.ret \in fs
        /\ full_path.ret = None => ProbeCandidates(analyzer, model_ref) \cap fs = {}

(***************************************************************************)
(* JSON workflow documents.                                                *)
(*                                                                         *)
(* A Python dict is kept in insertion order as [shape |-> "mapping", keys, *)
(* vals]; a Python list is [shape |-> "list", keys |-> <<>>, vals].        *)
(* A node is a record; isdict = FALSE stands for a list element that is    *)
(* not a JSON object (a string).  hasid = FALSE means the node has no 'id' *)
(* key; type and class_type are "" when the key is absent; width and       *)
(* height are 0 when the numeric input is absent.                          *)
(***************************************************************************)
EmptyDict == [shape |-> "mapping", keys |-> <<>>, vals |-> <<>>]
ListOf(elems) == [shape |-> "list", keys |-> <<>>, vals |-> elems]

\* k in d
HasKey(d, k) == d.shape = "mapping" /\ \E i \in 1..Len(d.keys) : d.keys[i] = k
\* d[k]
DictGet(d, k) == d.vals[CHOOSE i \in 1..Len(d.keys) : d.keys[i] = k]
\* d[k] = v : an existing key keeps its position, a new key goes last
DictSet(d, k, v) ==
    IF HasKey(d, k)
    THEN [d EXCEPT !.vals = [i \in 1..Len(d.vals) |-> IF d.keys[i] = k THEN v ELSE d.vals[i]]]
    ELSE [d EXCEPT !.keys = Append(d.keys, k), !.vals = Append(d.vals, v)]

\* {str(i): x for i, x in enumerate(elems)}
Enumerate(elems) ==
    [shape |-> "mapping",
     keys  |-> [i \in 1..Len(elems) |-> ToString(i - 1)],
     vals  |-> elems]

NoInputs == [shape |-> "absent", keys |-> <<>>, vals |-> <<>>]
DictInputs(ks, vs) == [shape |-> "mapping", keys |-> ks, vals |-> vs]
\* standard-format inputs: a list of dicts, entry i holding the pair keys[i]: vals[i]
ListInputs(ks, vs) == [shape |-> "list", keys |-> ks, vals |-> vs]

MkNode(isd, hid, nid, ty, ct, wv, inp, w, h) ==
    [isdict |-> isd, hasid |-> hid, id |-> nid, type |-> ty, class_type |-> ct,
     widgets_values |-> wv, inputs |-> inp, width |-> w, height |-> h]

\* a list element that is a JSON string rather than an object
StrNode(text) == MkNode(FALSE, FALSE, 0, text, "", <<>>, NoInputs, 0, 0)

\* A document: kind "unreadable" (missing file or invalid JSON), "scalar"
\* (a JSON number), "list" (top-level list elems) or "dict".  A dict document
\* holds elems under key: "nodes", "graph" (some other key), "extra" (the
\* document {"extra": {"ds": {"nodes": ...}}, "ds": {}}) or "version" (an
\* object without any node container); holder tells whether elems sit in a
\* JSON list or in a JSON object keyed "1", "2", ...
MkDoc(kind, key, holder, elems) ==
    [kind |-> kind, key |-> key, holder |-> holder, elems |-> elems]

\* the Python value stored under the document's container key
Held(doc) ==
    IF doc.holder = "list" THEN ListOf(doc.elems)
    ELSE [shape |-> "mapping",
          keys  |-> [i \in 1..Len(doc.elems) |-> ToString(i)],
          vals  |-> doc.elems]

\* what iterating the held value yields: the elements of a list, the keys
\* (strings) of a dict
IterHeld(doc) ==
    IF doc.holder = "list" THEN doc.elems
    ELSE [i \in 1..Len(doc.elems) |-> StrNode(ToString(i))]

(***************************************************************************)
(* ProperVideoValidator.parse_workflow                                     *)
(***************************************************************************)
\* for node in seq: if isinstance(node, dict) and 'id' in node: nodes[str(node['id'])] = node
RECURSIVE AddById(_, _)
AddById(d, seq) ==
    IF seq = <<>> THEN d
    ELSE AddById(IF Head(seq).isdict /\ Head(seq).hasid
                 THEN DictSet(d, ToString(Head(seq).id), Head(seq))
                 ELSE d,
                 Tail(seq))

\* AddByIndex without the isinstance test (every element is mapped)
RECURSIVE AddByIndex_all(_, _, _)
AddByIndex_all(d, seq, i) ==
    IF seq = <<>> THEN d
    ELSE AddByIndex_all(DictSet(d, ToString(i), Head(seq)), Tail(seq), i + 1)

\* for i, node in enumerate(data): if isinstance(node, dict): nodes[str(i)] = node
RECURSIVE AddByIndex(_, _, _)
AddByIndex(d, seq, i) ==
    IF seq = <<>> THEN d
    ELSE AddByIndex(IF Head(seq).isdict THEN DictSet(d, ToString(i), Head(seq)) ELSE d,
                    Tail(seq), i + 1)

ProperParseError == [nodes |-> EmptyDict, total_nodes |-> 0, format |-> "error"]

total_nodes_of(nodes) == Len(nodes.keys)

ProperParsed(nodes, fmt) ==
    [nodes |-> nodes, total_nodes |-> total_nodes_of(nodes), format |-> fmt]

Proper_parse_workflow(doc) ==
    IF doc.kind = "unreadable"
    THEN ProperParseError                 \* open() or json.load() raised
    ELSE IF doc.kind = "scalar"
    THEN ProperParseError                 \* 'nodes' in <number> raises TypeError
    ELSE IF doc.kind = "dict" /\ doc.key = "nodes"
    THEN ProperParsed(AddById(EmptyDict, IterHeld(doc)), "comfyui_standard")
    ELSE IF doc.kind = "list"
    THEN ProperParsed(AddByIndex(EmptyDict, doc.elems, 0), "api_format")
    ELSE \* scan the other keys for a non-empty list whose first item has an id
         IF /\ doc.key = "graph" /\ doc.holder = "list" /\ doc.elems # <<>>
            /\ doc.elems[1].isdict /\ doc.elems[1].hasid
         THEN ProperParsed(AddById(EmptyDict, doc.elems), "api_format")
         ELSE ProperParsed(EmptyDict, "api_format")

(***************************************************************************)
(* SimpleVideoValidator.parse_workflow and extract_model_references        *)
(***************************************************************************)
SimpleParsed(nodes, fmt) == [nodes |-> nodes, format |-> fmt]

Simple_parse_workflow(doc) ==
    IF doc.kind = "unreadable"
    THEN SimpleParsed(EmptyDict, "error")
    ELSE IF doc.kind = "list"
    THEN SimpleParsed(Enumerate(doc.elems), "list")
    ELSE IF doc.kind = "dict"
    THEN IF doc.key = "nodes"
         THEN SimpleParsed(Held(doc), "dict")          \* nodes = data['nodes']
         ELSE IF doc.key = "extra"
         THEN SimpleParsed(Enumerate(IterHeld(doc)), "dict")
         ELSE SimpleParsed(EmptyDict, "dict")          \* data.get('nodes', {})
    ELSE SimpleParsed(EmptyDict, "dict")               \* neither list nor dict

Simple_model_extensions == {".safetensors", ".ckpt", ".pth", ".pt", ".bin"}

\* the categorisation chain of lines 107-122
Simple_model_type(folder, filename) ==
    LET folder_lower == lower(folder)
        filename_lower == lower(filename)
    IN  IF \E x \in {"checkpoint", "checkpoints", "model"} : Contains(folder_lower, x)
        THEN "checkpoint"
        ELSE IF Contains(folder_lower, "lora") \/ Contains(filename_lower, "lora")
        THEN "lora"
        ELSE IF Contains(folder_lower, "vae") \/ Contains(filename_lower, "vae")
        THEN "vae"
        ELSE IF Contains(folder_lower, "controlnet") \/ Contains(filename_lower, "control")
        THEN "controlnet"
        ELSE IF Contains(folder_lower, "upscale") \/ Contains(folder_lower, "esrgan")
        THEN "upscale"
        ELSE "other"

\* the references one node contributes; the input values of the modelled
\* documents are strings, so only the string format branch is taken
RECURSIVE Simple_node_models(_, _, _)
Simple_node_models(node_id, node, i) ==
    IF i > Len(node.inputs.keys) THEN <<>>
    ELSE LET input_value == node.inputs.vals[i]
             rest == Simple_node_models(node_id, node, i + 1)
         IN  IF /\ Contains(input_value, ".")
                /\ \E ext \in Simple_model_extensions : endswith(lower(input_value), ext)
             THEN << [folder |-> "unknown", filename |-> input_value,
                      node_id |-> node_id, node_type |-> node.type,
                      input_name |-> node.inputs.keys[i],
                      model_type |-> Simple_model_type("unknown", input_value)] >> \o rest
             ELSE rest

\* for node_id, node in nodes.items(): ... ; a list has no .items(), and
\* neither has the 'inputs' list of a standard-format node
RECURSIVE Simple_extract_from(_, _)
Simple_extract_from(nodes, i) ==
    IF i > Len(nodes.keys) THEN Returned(<<>>)
    ELSE LET node == nodes.vals[i]
             rest == Simple_extract_from(nodes, i + 1)
         IN  IF ~node.isdict THEN rest
             ELSE IF node.inputs.shape = "list" THEN Raised("AttributeError")
             ELSE IF rest.exc # "" THEN rest
             ELSE Returned(Simple_node_models(nodes.keys[i], node, 1) \o rest.ret)

Simple_extract_model_references(workflow_data) ==
    IF workflow_data.nodes.shape = "list"
    THEN Raised("AttributeError")
    ELSE Simple_extract_from(workflow_data.nodes, 1)

(***************************************************************************)
(* Worktree validators: parse_workflow, extract_model_references and       *)
(* validate_workflow of the LTX and generic analyzers.                     *)
(***************************************************************************)
\* parse_workflow returns json.load's value, or {} when it raised; the
\* document is falsy when it is {}, [] (and unreadable files give {})
Falsy(doc) ==
    \/ doc.kind = "unreadable"
    \/ doc.kind = "list" /\ doc.elems = <<>>

\* workflow_data.get('nodes') is truthy
HasNodes(doc) == doc.kind = "dict" /\ doc.key = "nodes" /\ doc.elems # <<>>

Pattern(f, t) == [field |-> f, type |-> t]

LTX_video_patterns(node_type) ==
    IF node_type = "CheckpointLoaderSimple" THEN <<Pattern("ckpt_name", "checkpoint")>>
    ELSE IF node_type = "VAELoader" THEN <<Pattern("vae_name", "vae")>>
    ELSE IF node_type = "CLIPTextEncode" THEN <<Pattern("clip", "clip")>>
    ELSE IF node_type = "LoraLoader"
    THEN <<Pattern("lora_name", "lora"), Pattern("lora_name", "lora")>>
    ELSE IF node_type = "ControlNetLoader" THEN <<Pattern("control_net_name", "controlnet")>>
    ELSE <<>>

_get_ltx_model_patterns(node_type) ==
    (IF Contains(node_type, "LTX") \/ Contains(node_type, "ltx")
     THEN (IF Contains(node_type, "Loader") \/ Contains(node_type, "loader")
           THEN <<Pattern("model_name", "checkpoint"), Pattern("vae_name", "vae"),
                  Pattern("clip_name", "clip")>>
           ELSE <<>>)
          \o (IF Contains(node_type, "LoRA") \/ Contains(node_type, "lora")
              THEN <<Pattern("lora_name", "lora"), Pattern("lora_name", "lora")>>
              ELSE <<>>)
          \o (IF Contains(node_type, "Control") \/ Contains(node_type, "control")
              THEN <<Pattern("control_net_name", "controlnet"),
                     Pattern("model_name", "controlnet")>>
              ELSE <<>>)
     ELSE <<>>)
    \o LTX_video_patterns(node_type)

\* field_name in inputs: key lookup in a dict; a list of dicts never
\* contains the field name itself
InInputs(inputs, field) == inputs.shape = "mapping" /\ HasKey(inputs, field)

SkippedName(model_name) == model_name \in {"", "none", "None"}

MkRef(mtype, name, node_id, node_type, conf) ==
    [model_type |-> mtype, model_name |-> name, model_category |-> "general",
     node_id |-> node_id, node_type |-> node_type, confidence |-> conf]

\* the references one node yields for a list of [field, type] patterns
RECURSIVE RefsForPatterns(_, _, _, _)
RefsForPatterns(node_id, node, patterns, conf) ==
    IF patterns = <<>> THEN <<>>
    ELSE LET pat  == Head(patterns)
             rest == RefsForPatterns(node_id, node, Tail(patterns), conf)
         IN  IF /\ InInputs(node.inputs, pat.field)
                /\ ~SkippedName(DictGet(node.inputs, pat.field))
             THEN <<MkRef(pat.type, DictGet(node.inputs, pat.field),
                          node_id, node.class_type, conf)>> \o rest
             ELSE rest

\* for node_id, node in workflow_data['nodes'].items(): node.get(...) ...
\* A node that is not a dict has no .get
RECURSIVE LTX_extract_from(_, _)
LTX_extract_from(nodes, i) ==
    IF i > Len(nodes.keys) THEN Returned(<<>>)
    ELSE LET node == nodes.vals[i]
             rest == LTX_extract_from(nodes, i + 1)
         IN  IF ~node.isdict THEN Raised("AttributeError")
             ELSE IF rest.exc # "" THEN rest
             ELSE Returned(RefsForPatterns(nodes.keys[i], node,
                               _get_ltx_model_patterns(node.class_type), 10) \o rest.ret)

LTX_extract_model_references(doc) ==
    IF doc.kind # "dict" THEN Raised("AttributeError")   \* no .get on a list or number
    ELSE IF ~HasNodes(doc) THEN Returned(<<>>)
    ELSE IF doc.holder = "list" THEN Raised("AttributeError")  \* no .items() on a list
    ELSE LTX_extract_from(Held(doc), 1)

\* some probe of the reference raises / finds the file
ResolveRaises(outcomes) == \E o \in outcomes : o.exc # ""
ResolveFinds(outcomes)  == \E o \in outcomes : o.exc = "" /\ o.ret # None

StatsOf(a, refs, files) ==
    LET found == {i \in 1..Len(refs) :
                    ResolveFinds(IF a = "ltx" THEN LTX_resolve_model_path(refs[i], files)
                                 ELSE Generic_resolve_model_path(refs[i], files))}
    IN  [total_models |-> Len(refs),
         found_models |-> Cardinality(found),
         missing_models |-> Len(refs) - Cardinality(found)]

WtResult(stats, refs, indicators) ==
    [total_models |-> stats.total_models, missing_models |-> stats.missing_models,
     found_models |-> stats.found_models, model_references |-> refs,
     video_indicators |-> indicators]

ZeroStats == [total_models |-> 0, found_models |-> 0, missing_models |-> 0]

LTX_validate_workflow(doc, files) ==
    IF Falsy(doc) THEN Returned(WtResult(ZeroStats, <<>>, <<>>))
    ELSE IF doc.kind # "dict"
    THEN Raised("AttributeError")       \* workflow_data.get('extra', {}) on a list
    ELSE LET model_refs == LTX_extract_model_references(doc)
         IN  IF model_refs.exc # "" THEN model_refs
             ELSE IF \E i \in 1..Len(model_refs.ret) :
                        ResolveRaises(LTX_resolve_model_path(model_refs.ret[i], files))
             THEN Raised("NameError")
             ELSE Returned(WtResult(StatsOf("ltx", model_refs.ret, files),
                                    model_refs.ret, <<>>))

\* ---- generic analyzer ----
video_node_patterns ==
    << "video", "Video", "animation", "Animation", "motion", "Motion",
       "temporal", "Temporal", "sequence", "Sequence", "frame", "Frame",
       "interpolate", "Interpolate", "upscale", "Upscale", "enhance", "Enhance",
       "morph", "Morph", "blend", "Blend", "transition", "Transition",
       "diffusers", "Diffusers", "stablevideo", "StableVideo",
       "svd", "SVD", "zeroscope", "Zeroscope", "modelscope", "ModelScope" >>

video_node_patterns_lower ==
    {lower(video_node_patterns[i]) : i \in 1..Len(video_node_patterns)}

temporal_patterns == {"temporal", "sequence", "frame", "motion"}
sequence_patterns == {"batch", "sequence", "repeat", "interpolate"}
frame_patterns    == {"frame", "video", "image", "resize", "crop"}

ContainsAny(text, pats) == \E pat \in pats : Contains(text, pat)

\* inputs = node.get('inputs', {}); a numeric width or height above 1024
NodeHasVideoResolution(node) ==
    node.inputs.shape # "list" /\ (node.width > 1024 \/ node.height > 1024)

_analyze_connections(nodes) ==
    [has_temporal_connections |->
        \E i \in 1..Len(nodes.vals) : ContainsAny(lower(nodes.vals[i].class_type), temporal_patterns),
     has_sequence_nodes |->
        \E i \in 1..Len(nodes.vals) : ContainsAny(lower(nodes.vals[i].class_type), sequence_patterns),
     has_frame_processing |->
        \E i \in 1..Len(nodes.vals) : ContainsAny(lower(nodes.vals[i].class_type), frame_patterns),
     has_video_resolutions |->
        \E i \in 1..Len(nodes.vals) : NodeHasVideoResolution(nodes.vals[i])]

\* one "Node: <type>" indicator per node whose type matches a pattern
RECURSIVE NodeIndicators(_, _)
NodeIndicators(nodes, i) ==
    IF i > Len(nodes.vals) THEN <<>>
    ELSE (IF ContainsAny(lower(nodes.vals[i].class_type), video_node_patterns_lower)
          THEN <<"Node: " \o nodes.vals[i].class_type>> ELSE <<>>)
         \o NodeIndicators(nodes, i + 1)

MinVideoIndicators == 2

\* the modelled documents carry no workflow title, so the title test adds nothing
is_video_workflow(doc) ==
    IF doc.kind # "dict" THEN Raised("AttributeError")
    ELSE IF ~HasNodes(doc) THEN Returned([is_video |-> FALSE, video_indicators |-> <<>>])
    ELSE IF doc.holder = "list" THEN Raised("AttributeError")
    ELSE IF \E i \in 1..Len(doc.elems) : ~doc.elems[i].isdict THEN Raised("AttributeError")
    ELSE LET nodes == Held(doc)
             conn  == _analyze_connections(nodes)
             video_indicators ==
                 NodeIndicators(nodes, 1)
                 \o (IF conn.has_temporal_connections THEN <<"Temporal connections detected">> ELSE <<>>)
                 \o (IF conn.has_sequence_nodes THEN <<"Sequence nodes detected">> ELSE <<>>)
                 \o (IF conn.has_frame_processing THEN <<"Frame processing detected">> ELSE <<>>)
                 \o (IF conn.has_video_resolutions THEN <<"Video resolution settings detected">> ELSE <<>>)
         IN  Returned([is_video |-> Len(video_indicators) >= MinVideoIndicators,
                       video_indicators |-> video_indicators])

Digits == {"0","1","2","3","4","5","6","7","8","9"}
HexLetters == {"a","b","c","d","e","f","A","B","C","D","E","F"}

\* s is non-empty and made of characters of cs only
AllCharsIn(s, cs) == s # "" /\ \A i \in 1..Len(s) : SubSeq(s, i, i) \in cs

\* str.strip() for blanks
RECURSIVE lstrip(_)
lstrip(s) == IF s # "" /\ Head(s) = " " THEN lstrip(Tail(s)) ELSE s
RECURSIVE rstrip(_)
rstrip(s) == IF s # "" /\ SubSeq(s, Len(s), Len(s)) = " "
             THEN rstrip(SubSeq(s, 1, Len(s) - 1)) ELSE s
strip(s) == rstrip(lstrip(s))

_is_obvious_non_model(value) ==
    LET v == strip(value)
    IN  \/ AllCharsIn(v, Digits)
        \/ Len(v) = 36 /\ AllCharsIn(v, Digits \cup HexLetters \cup {"-"})
        \/ Len(v) = 1 /\ LowerChar(v) \in {LowerChars[i] : i \in 1..26}
        \/ v \in {"true", "false", "on", "off", "yes", "no"}
        \/ AllCharsIn(v, Digits \cup {"."})
        \/ Len(v) >= 2 /\ Head(v) = "#" /\ AllCharsIn(Tail(v), Digits \cup HexLetters)
        \/ \E i \in 2..(Len(v) - 1) :
              /\ SubSeq(v, i, i) = "x"
              /\ AllCharsIn(SubSeq(v, 1, i - 1), Digits)
              /\ AllCharsIn(SubSeq(v, i + 1, Len(v)), Digits)
        \/ \E r \in {"256", "512", "768", "1024", "1536", "2048"} : v = r \/ v = r \o ".0"

high_confidence_patterns ==
    << Pattern("ckpt_name", "checkpoint"), Pattern("model_name", "diffusion_model"),
       Pattern("vae_name", "vae"), Pattern("lora_name", "lora"),
       Pattern("control_net_name", "controlnet"), Pattern("unet_name", "unet"),
       Pattern("text_encoder_name", "text_encoder"), Pattern("transformer_name", "transformer"),
       Pattern("upscale_model_name", "upscale"), Pattern("style_model_name", "style_model") >>
medium_confidence_patterns ==
    << Pattern("model", "unknown_model"), Pattern("name", "unknown_model"),
       Pattern("filename", "unknown_model"), Pattern("path", "unknown_model") >>
low_confidence_patterns ==
    << Pattern("file", "possible_model"), Pattern("file_name", "possible_model"),
       Pattern("weight", "possible_model"), Pattern("weights", "possible_model") >>

\* confidences in tenths: 1.0, 0.7, 0.4
HighConfidence == 10
MediumConfidence == 7
LowConfidence == 4
ConfidenceThreshold == 7

RECURSIVE process_patterns(_, _, _, _)
process_patterns(node_id, node, patterns, conf) ==
    IF patterns = <<>> THEN <<>>
    ELSE LET pat  == Head(patterns)
             rest == process_patterns(node_id, node, Tail(patterns), conf)
         IN  IF /\ InInputs(node.inputs, pat.field)
                /\ ~SkippedName(DictGet(node.inputs, pat.field))
                /\ ~_is_obvious_non_model(DictGet(node.inputs, pat.field))
             THEN <<MkRef(pat.type, DictGet(node.inputs, pat.field),
                          node_id, node.class_type, conf)>> \o rest
             ELSE rest

_extract_models_from_node(node_id, node) ==
    process_patterns(node_id, node, high_confidence_patterns, HighConfidence)
    \o process_patterns(node_id, node, medium_confidence_patterns, MediumConfidence)
    \o process_patterns(node_id, node, low_confidence_patterns, LowConfidence)

RECURSIVE Generic_extract_from(_, _)
Generic_extract_from(nodes, i) ==
    IF i > Len(nodes.keys) THEN <<>>
    ELSE _extract_models_from_node(nodes.keys[i], nodes.vals[i])
         \o Generic_extract_from(nodes, i + 1)

\* only reached after is_video_workflow accepted the document, so the
\* nodes are a dict of dicts here
Generic_extract_model_references(doc) == Generic_extract_from(Held(doc), 1)

\* [ref for ref in model_refs if ref.confidence >= 0.7]
high_confidence_refs(refs) == SelectSeq(refs, LAMBDA r : r.confidence >= ConfidenceThreshold)

Generic_validate_workflow(doc, files) ==
    IF Falsy(doc) THEN Returned(WtResult(ZeroStats, <<>>, <<>>))
    ELSE LET iv == is_video_workflow(doc)
         IN  IF iv.exc # "" THEN iv
             ELSE IF ~iv.ret.is_video
             THEN Returned(WtResult(ZeroStats, <<>>, iv.ret.video_indicators))
             ELSE LET model_refs == Generic_extract_model_references(doc)
                  IN  IF \E i \in 1..Len(model_refs) :
                            ResolveRaises(Generic_resolve_model_path(model_refs[i], files))
                      THEN Raised("NameError")
                      ELSE Returned(WtResult(
                               StatsOf("generic", high_confidence_refs(model_refs), files),
                               high_confidence_refs(model_refs),
                               iv.ret.video_indicators))

(***************************************************************************)
(* Specification of the workflow parsers: a document is drawn, then each   *)
(* validator reads it.                                                     *)
(***************************************************************************)
MaxNodes == 2

StdCkpt   == MkNode(TRUE, TRUE, 1, "CheckpointLoaderSimple", "", <<"a.ckpt">>,
                    ListInputs(<<"name">>, <<"model">>), 0, 0)
StdLtxDup == MkNode(TRUE, TRUE, 1, "LTXVLoader", "", <<"ltx.safetensors">>, NoInputs, 0, 0)
StdNote   == MkNode(TRUE, TRUE, 2, "Note", "", <<>>, NoInputs, 0, 0)
ApiCkpt   == MkNode(TRUE, FALSE, 0, "", "CheckpointLoaderSimple", <<>>,
                    DictInputs(<<"ckpt_name">>, <<"a.ckpt">>), 0, 0)
ApiVideo  == MkNode(TRUE, FALSE, 0, "", "VideoCombine", <<>>,
                    DictInputs(<<"unet_name", "file">>, <<"a", "w.bin">>), 1280, 720)
ApiSave   == MkNode(TRUE, FALSE, 0, "", "SaveImage", <<>>,
                    DictInputs(<<"filename_prefix">>, <<"out">>), 0, 0)

ParseNodes == {StdCkpt, StdLtxDup, StdNote, ApiCkpt, ApiVideo, ApiSave, StrNode("x")}

NodeSeqs(S, n) == UNION {[1..k -> S] : k \in 0..n}

ParseDocs ==
    { MkDoc("unreadable", "", "list", <<>>),
      MkDoc("scalar", "", "list", <<>>),
      MkDoc("dict", "version", "list", <<>>) }
    \cup { MkDoc("list", "", "list", e) : e \in NodeSeqs(ParseNodes, MaxNodes) }
    \cup { MkDoc("dict", k, "list", e) :
             k \in {"nodes", "graph", "extra"}, e \in NodeSeqs(ParseNodes, MaxNodes) }
    \cup { MkDoc("dict", "nodes", "mapping", e) : e \in NodeSeqs(ParseNodes, MaxNodes) }

ParseFiles == {"/home/ned/Models/unet/a", "/home/ned/Models/unets/a.ckpt"}

InitParse ==
    /\ data \in ParseDocs
    /\ fs \in SUBSET ParseFiles
    /\ analyzer \in {"ltx", "generic"}
    /\ parsed = Pending /\ simple_out = Pending /\ wt_result = Pending
    /\ model_ref = Idle /\ full_path = Idle
    /\ IdleScrape /\ IdleOrch /\ IdleProper /\ IdleRobust /\ IdleTool

ProperParse ==
    /\ parsed = Pending
    /\ parsed' = Returned(Proper_parse_workflow(data))
    /\ UNCHANGED <<data, simple_out, wt_result, resolveVars>>
    /\ UNCHANGED <<scrapeVars, orchVars, properVars, robustVars, toolVars>>

\* validate_video_workflow's first two calls: parse_workflow, then
\* extract_model_references on its result
SimpleParseExtract ==
    /\ simple_out = Pending
    /\ simple_out' = Returned(
           [workflow_data |-> Simple_parse_workflow(data),
            models |-> Simple_extract_model_references(Simple_parse_workflow(data))])
    /\ UNCHANGED <<data, parsed, wt_result, resolveVars>>
    /\ UNCHANGED <<scrapeVars, orchVars, properVars, robustVars, toolVars>>

LTXValidate ==
    /\ analyzer = "ltx" /\ wt_result = Pending
    /\ wt_result' = LTX_validate_workflow(data, fs)
    /\ UNCHANGED <<data, parsed, simple_out, resolveVars>>
    /\ UNCHANGED <<scrapeVars, orchVars, properVars, robustVars, toolVars>>

GenericValidate ==
    /\ analyzer = "generic" /\ wt_result = Pending
    /\ wt_result' = Generic_validate_workflow(data, fs)
    /\ UNCHANGED <<data, parsed, simple_out, resolveVars>>
    /\ UNCHANGED <<scrapeVars, orchVars, properVars, robustVars, toolVars>>

NextParse == ProperParse \/ SimpleParseExtract \/ LTXValidate \/ GenericValidate

SpecParse == InitParse /\ [][NextParse]_vars

\* ---- C2 ----
IdBearing(doc) == {j \in 1..Len(doc.elems) : doc.elems[j].isdict /\ doc.elems[j].hasid}
DictElems(doc) == {j \in 1..Len(doc.elems) : doc.elems[j].isdict}
KeySet(d) == {d.keys[i] : i \in 1..Len(d.keys)}
Max(S) == CHOOSE x \in S : \A y \in S : x >= y

\* the document is one of the shapes parse_workflow maps by node id
ById(doc) ==
    \/ doc.kind = "dict" /\ doc.key = "nodes" /\ doc.holder = "list"
    \/ /\ doc.kind = "dict" /\ doc.key = "graph" /\ doc.holder = "list"
       /\ doc.elems # <<>> /\ 1 \in IdBearing(doc)

\* C2: ProperVideoValidator.parse_workflow never raises; for an object with
\* a 'nodes' list, or with a list of id-bearing nodes under another key, the
\* result maps str(id) to the (last) node record with that id, for a
\* top-level list it maps str(index) to each object element; the keys are
\* distinct strings, total_nodes is the number of mapped nodes, and an
\* unreadable or malformed file gives the empty mapping, total_nodes 0 and
\* format 'error'.
Thm_C2 ==
    parsed # Pending =>
      LET r == parsed.ret
          n == r.nodes
      IN  /\ parsed.exc = ""
          /\ n.shape = "mapping" /\ Len(n.keys) = Len(n.vals)
          /\ \A i, j \in 1..Len(n.keys) : i # j => n.keys[i] # n.keys[j]
          /\ r.total_nodes = Cardinality(KeySet(n))
          /\ \A i \in 1..Len(n.vals) : n.vals[i].isdict
          /\ ById(data) =>
                /\ KeySet(n) = {ToString(data.elems[j].id) : j \in IdBearing(data)}
                /\ \A i \in 1..Len(n.keys) :
                      n.vals[i] = data.elems[Max({j \in IdBearing(data) :
                                        ToString(data.elems[j].id) = n.keys[i]})]
          /\ data.kind = "list" =>
                /\ KeySet(n) = {ToString(j - 1) : j \in DictElems(data)}
                /\ \A j \in DictElems(data) : DictGet(n, ToString(j - 1)) = data.elems[j]
          /\ data.kind \in {"unreadable", "scalar"} =>
                r = [nodes |-> EmptyDict, total_nodes |-> 0, format |-> "error"]

\* two nodes carrying the same id were read from a 'nodes' list and mapped to one entry
Witness_C2 ==
    /\ parsed # Pending /\ data.kind = "dict" /\ data.key = "nodes" /\ data.holder = "list"
    /\ Len(data.elems) = 2 /\ IdBearing(data) = {1, 2}
    /\ data.elems[1].id = data.elems[2].id
    /\ parsed.ret.total_nodes = 1

\* ---- C3 ----
SimpleAccepted(doc) ==
    doc.kind = "list" \/ (doc.kind = "dict" /\ doc.key \in {"nodes", "extra"})

\* C3 (as claimed): for every shape SimpleVideoValidator.parse_workflow
\* accepts, 'nodes' is a mapping node-id -> node-record, so that
\* extract_model_references can call .items() on it.
Cex_C3 ==
    (simple_out # Pending /\ SimpleAccepted(data)) =>
        simple_out.ret.workflow_data.nodes.shape = "mapping"

\* ---- C4 ----
\* the three workflow JSON shapes, holding node objects only
WorkflowShape(doc) ==
    /\ \/ doc.kind = "list"
       \/ doc.kind = "dict" /\ doc.key = "nodes"
    /\ \A j \in 1..Len(doc.elems) : doc.elems[j].isdict

\* C4 (as claimed): validate_workflow of the worktree validators returns a
\* result with all counts 0 for a file that cannot be read or parsed, and
\* processes a document of any workflow shape (object with a 'nodes'
\* mapping, object with a 'nodes' list, top-level list of nodes) to a
\* result without raising.
Cex_C4 ==
    wt_result # Pending =>
        /\ data.kind = "unreadable" =>
              /\ wt_result.exc = ""
              /\ wt_result.ret.total_models = 0
              /\ wt_result.ret.found_models = 0
              /\ wt_result.ret.missing_models = 0
        /\ WorkflowShape(data) => wt_result.exc = ""

(***************************************************************************)
(* VideoWorkflowOrchestrator._parse_validator_output                       *)
(*                                                                         *)
(* stdout is kept as the sequence output.split('\n') yields.               *)
(***************************************************************************)
DigitValue(c) == CHOOSE v \in 0..9 : ToString(v) = c

RECURSIVE DigitsValue(_, _)
DigitsValue(s, acc) ==
    IF s = "" THEN acc ELSE DigitsValue(Tail(s), 10 * acc + DigitValue(Head(s)))

\* int(text): [ok, value]; ok = FALSE stands for ValueError
ParseInt(text) ==
    LET t == strip(text)
    IN  IF AllCharsIn(t, Digits) THEN [ok |-> TRUE, value |-> DigitsValue(t, 0)]
        ELSE IF Len(t) >= 2 /\ Head(t) = "+" /\ AllCharsIn(Tail(t), Digits)
        THEN [ok |-> TRUE, value |-> DigitsValue(Tail(t), 0)]
        ELSE IF Len(t) >= 2 /\ Head(t) = "-" /\ AllCharsIn(Tail(t), Digits)
        THEN [ok |-> TRUE, value |-> 0 - DigitsValue(Tail(t), 0)]
        ELSE [ok |-> FALSE, value |-> 0]

\* line.split(':')[-1]
AfterLastColon(line) == SubSeq(line, rfind(line, ":") + 1, Len(line))

NoSummary == -1

\* 0-based index of the first line holding the summary header, or NoSummary
summary_start_of(lines) ==
    LET hits == {i \in 1..Len(lines) : Contains(lines[i], "WORKFLOW VALIDATION SUMMARY")}
    IN  IF hits = {} THEN NoSummary ELSE Min(hits) - 1

\* "if not summary_start": true for None and for index 0
NotSummaryStart(summary_start) == summary_start = NoSummary \/ summary_start = 0

ZeroMetrics ==
    [total_workflows |-> 0, total_models |-> 0, found_models |-> 0, missing_models |-> 0]

\* one pass of the if/elif chain of lines 263-282
ScrapeLine(m, line) ==
    LET n == ParseInt(AfterLastColon(line))
    IN  IF Contains(line, "Workflows analyzed:")
        THEN (IF n.ok THEN [m EXCEPT !.total_workflows = n.value] ELSE m)
        ELSE IF Contains(line, "Total models needed:")
        THEN (IF n.ok THEN [m EXCEPT !.total_models = n.value] ELSE m)
        ELSE IF Contains(line, "Models found:")
        THEN (IF n.ok THEN [m EXCEPT !.found_models = n.value] ELSE m)
        ELSE IF Contains(line, "Models missing:")
        THEN (IF n.ok THEN [m EXCEPT !.missing_models = n.value] ELSE m)
        ELSE m

RECURSIVE ScrapeLines(_, _)
ScrapeLines(m, lines) ==
    IF lines = <<>> THEN m ELSE ScrapeLines(ScrapeLine(m, Head(lines)), Tail(lines))

default_report(worktree) == Join(worktree, "validation_report.md")

\* worktree_path.glob("*validation_report.md"): the files directly in the worktree
GlobReports(worktree, files) ==
    {f \in files :
        /\ Len(f) > Len(worktree) + 1
        /\ SubSeq(f, 1, Len(worktree) + 1) = worktree \o "/"
        /\ ~Contains(SubSeq(f, Len(worktree) + 2, Len(f)), "/")
        /\ endswith(f, "validation_report.md")}

\* the report path: validation_report.md when it exists, else the first
\* glob match (glob order is the directory's), else the default again
report_paths(worktree, files) ==
    IF default_report(worktree) \in files \/ GlobReports(worktree, files) = {}
    THEN {default_report(worktree)}
    ELSE GlobReports(worktree, files)

WithReport(m, rp) ==
    [total_workflows |-> m.total_workflows, total_models |-> m.total_models,
     found_models |-> m.found_models, missing_models |-> m.missing_models,
     report_path |-> rp]

_parse_validator_output(lines, worktree, files) ==
    LET summary_start == summary_start_of(lines)
    IN  IF NotSummaryStart(summary_start)
        THEN {WithReport(ZeroMetrics, default_report(worktree))}
        ELSE {WithReport(ScrapeLines(ZeroMetrics,
                             SubSeq(lines, summary_start + 1, Len(lines))), rp) :
                rp \in report_paths(worktree, files)}

(***************************************************************************)
(* What the validator scripts print.  The per-workflow progress lines and  *)
(* the emoji of the closing lines are left out; c holds the sums main()    *)
(* prints: [total_workflows, total_models, found_models, missing_models].  *)
(***************************************************************************)
Rule60 == "============================================================"

SummaryHeader(script) ==
    IF script = "ltx_workflow_validator.py" THEN "LTX VIDEO WORKFLOW VALIDATION SUMMARY"
    ELSE IF script = "wan2_workflow_validator.py" THEN "WAN2 VIDEO WORKFLOW VALIDATION SUMMARY"
    ELSE IF script = "video_helper_suite_validator.py"
    THEN "VIDEOHELPER SUITE WORKFLOW VALIDATION SUMMARY"
    ELSE IF script = "kj_nodes_validator.py" THEN "KJNODES WORKFLOW VALIDATION SUMMARY"
    ELSE "GENERIC VIDEO WORKFLOW VALIDATION SUMMARY"

ScriptReportFile(script) ==
    IF script = "ltx_workflow_validator.py"
    THEN "/home/ned/ComfyUI-Install/worktrees/ltx-workflows/ltx_validation_report.md"
    ELSE IF script = "wan2_workflow_validator.py"
    THEN "/home/ned/ComfyUI-Install/worktrees/wan2-workflows/wan2_validation_report.md"
    ELSE IF script = "video_helper_suite_validator.py"
    THEN "/home/ned/ComfyUI-Install/worktrees/video-helper-workflows/video_helper_validation_report.md"
    ELSE IF script = "kj_nodes_validator.py"
    THEN "/home/ned/ComfyUI-Install/worktrees/kj-nodes-workflows/kj_nodes_validation_report.md"
    ELSE "/home/ned/ComfyUI-Install/worktrees/generic-video-workflows/generic_video_validation_report.md"

\* the lines between the header rule and the closing lines
SummaryLines(script, c) ==
    (IF script = "generic_video_validator.py"
     THEN <<"Video workflows analyzed: " \o ToString(c.total_workflows)>>
     ELSE <<"Workflows analyzed: " \o ToString(c.total_workflows)>>)
    \o (IF script = "kj_nodes_validator.py"
        THEN <<"Animation nodes: 0", "Morph nodes: 0">>
        ELSE IF script = "video_helper_suite_validator.py"
        THEN <<"Total VHS nodes: 0">>
        ELSE <<>>)
    \o << "Total models needed: " \o ToString(c.total_models),
          "Models found: " \o ToString(c.found_models),
          "Models missing: " \o ToString(c.missing_models) >>
    \o (IF script = "generic_video_validator.py" THEN <<"Unknown node types: 0">> ELSE <<>>)

ClosingLines(script, c) ==
    IF c.total_workflows = 0 THEN <<>>
    ELSE IF c.missing_models > 0
    THEN << "", ToString(c.missing_models) \o " models are missing!",
            "Detailed report: " \o ScriptReportFile(script) >>
    ELSE << "", "All models are available!" >>

\* what validate_all_workflows prints around its loop
FoundLines(script, n) ==
    IF script = "ltx_workflow_validator.py"
    THEN <<"Found " \o ToString(n) \o " LTX workflows to validate...">>
    ELSE IF script = "wan2_workflow_validator.py"
    THEN <<"Found " \o ToString(n) \o " Wan2 workflows to validate...">>
    ELSE IF script = "video_helper_suite_validator.py"
    THEN <<"Found " \o ToString(n) \o " VideoHelperSuite workflows to validate...">>
    ELSE IF script = "kj_nodes_validator.py"
    THEN <<"Found " \o ToString(n) \o " KJNodes workflows to validate...">>
    ELSE << "Found " \o ToString(n) \o " candidate workflows to analyze...",
            "", "Skipped 0 non-video workflows" >>

\* stdout of main(), split at newlines (the text ends with a newline)
ScriptStdout(script, c) ==
    FoundLines(script, c.total_workflows)
    \o << "Report saved to: " \o ScriptReportFile(script),
          "", Rule60, SummaryHeader(script), Rule60 >>
    \o SummaryLines(script, c)
    \o ClosingLines(script, c)
    \o <<"">>

(***************************************************************************)
(* Specification of the scraper alone: any stdout, then the parse.         *)
(***************************************************************************)
CountValues == {0, 3, 12}
Counts4 == [total_workflows : CountValues, total_models : CountValues,
            found_models : CountValues, missing_models : CountValues]

ScrapePreambles == { <<>>, <<"Found 3 workflows to validate...", "">> }
ScrapeHeaders == { "LTX VIDEO WORKFLOW VALIDATION SUMMARY", "VALIDATION SUMMARY" }

ScrapeOutput(pre, header, c) ==
    pre \o <<header, Rule60>>
    \o << "Workflows analyzed: " \o ToString(c.total_workflows),
          "Total models needed: " \o ToString(c.total_models),
          "Models found: " \o ToString(c.found_models),
          "Models missing: " \o ToString(c.missing_models), "" >>

ScrapeWorktree == "/home/ned/ComfyUI-Install/worktrees/ltx-workflows"
ScrapeFiles == { Join(ScrapeWorktree, "validation_report.md"),
                 Join(ScrapeWorktree, "ltx_validation_report.md") }

PendingMetrics == WithReport(ZeroMetrics, "pending")

InitScrape ==
    /\ printed \in Counts4
    /\ \E pre \in ScrapePreambles, header \in ScrapeHeaders :
          output = ScrapeOutput(pre, header, printed)
    /\ worktree_path = ScrapeWorktree
    /\ fs \in SUBSET ScrapeFiles
    /\ metrics = PendingMetrics
    /\ analyzer = Idle /\ model_ref = Idle /\ full_path = Idle
    /\ phase = Idle /\ pool = Idle /\ future = Idle /\ results = Idle
    /\ IdleParse /\ IdleProper /\ IdleRobust /\ IdleTool

ParseValidatorOutput ==
    /\ metrics = PendingMetrics
    /\ metrics' \in _parse_validator_output(output, worktree_path, fs)
    /\ UNCHANGED <<output, worktree_path, resolveVars, orchVars>>
    /\ UNCHANGED <<parseVars, properVars, robustVars, toolVars>>

NextScrape == ParseValidatorOutput

SpecScrape == InitScrape /\ [][NextScrape]_vars

HasSummaryHeader(lines) ==
    \E i \in 1..Len(lines) : Contains(lines[i], "WORKFLOW VALIDATION SUMMARY")

Counts(m) == <<m.total_workflows, m.total_models, m.found_models, m.missing_models>>

\* C5 (as claimed): when stdout holds a header line followed by the four
\* count lines, _parse_validator_output returns exactly those counts,
\* wherever the header line is (also when it is the first line); without a
\* header line it returns all-zero counts.
Cex_C5 ==
    metrics # PendingMetrics =>
        /\ HasSummaryHeader(output) => Counts(metrics) = Counts(printed)
        /\ ~HasSummaryHeader(output) => Counts(metrics) = Counts(ZeroMetrics)

(***************************************************************************)
(* video_workflow_orchestrator.py: the five tasks, one task's execution,   *)
(* and the three thread pools of execute_parallel_validation.  Console     *)
(* output of the orchestrator and execution_time are not modelled.         *)
(***************************************************************************)
comfyui_path == "/home/ned/ComfyUI-Install/ComfyUI"
worktrees_path == "/home/ned/ComfyUI-Install/worktrees"
max_workers == 4

ValidationTask(name, dir, script, priority) ==
    [name |-> name, worktree_path |-> Join(worktrees_path, dir),
     validator_script |-> script, priority |-> priority]

validation_tasks ==
    << ValidationTask("LTX Video Workflows", "ltx-workflows",
                      "ltx_workflow_validator.py", "high"),
       ValidationTask("Wan2 Video Workflows", "wan2-workflows",
                      "wan2_workflow_validator.py", "high"),
       ValidationTask("VideoHelperSuite Workflows", "video-helper-workflows",
                      "video_helper_suite_validator.py", "medium"),
       ValidationTask("KJNodes Workflows", "kj-nodes-workflows",
                      "kj_nodes_validator.py", "medium"),
       ValidationTask("Generic Video Workflows", "generic-video-workflows",
                      "generic_video_validator.py", "low") >>

TaskNames == {validation_tasks[i].name : i \in 1..Len(validation_tasks)}
TaskOf(name) == CHOOSE t \in {validation_tasks[i] : i \in 1..Len(validation_tasks)} :
                    t.name = name

ValidationResult(task_name, success, m, error_message) ==
    [task_name |-> task_name, success |-> success,
     total_workflows |-> m.total_workflows, total_models |-> m.total_models,
     found_models |-> m.found_models, missing_models |-> m.missing_models,
     report_path |-> m.report_path, error_message |-> error_message]

FailedResult(task_name, error_message) ==
    ValidationResult(task_name, FALSE, WithReport(ZeroMetrics, ""), error_message)

\* what subprocess.run can do: the child exits, the timeout expires, or the
\* child cannot be started
Exited(returncode, stdout, stderr) ==
    [kind |-> "exit", returncode |-> returncode, stdout |-> stdout, stderr |-> stderr]
TimeoutExpired == [kind |-> "TimeoutExpired", returncode |-> 0, stdout |-> <<>>, stderr |-> ""]
RunOSError == [kind |-> "OSError", returncode |-> 0, stdout |-> <<>>, stderr |-> ""]

\* execute_validation_task without the test of the return code
execute_validation_task_any_exit(task, files, run, after) ==
    LET script == Join(task.worktree_path, task.validator_script)
    IN  IF task.worktree_path \notin files
        THEN {FailedResult(task.name, "Unexpected error: Worktree not found: "
                                      \o task.worktree_path)}
        ELSE IF script \notin files
        THEN {FailedResult(task.name, "Unexpected error: Validator script not found: "
                                      \o script)}
        ELSE IF run.kind = "TimeoutExpired"
        THEN {FailedResult(task.name, "Validation timed out after 5 minutes")}
        ELSE IF run.kind # "exit"
        THEN {FailedResult(task.name, "Unexpected error: " \o run.kind)}
        ELSE {ValidationResult(task.name, TRUE, m, None) :
                 m \in _parse_validator_output(run.stdout, task.worktree_path, after)}

\* The body of execute_validation_task: files is the file system when the
\* existence tests run, run the outcome of subprocess.run, after the files
\* after the child has run.  The result is a set because the report glob
\* has no fixed order.
execute_validation_task(task, files, run, after) ==
    LET script == Join(task.worktree_path, task.validator_script)
    IN  IF task.worktree_path \notin files
        THEN {FailedResult(task.name, "Unexpected error: Worktree not found: "
                                      \o task.worktree_path)}
        ELSE IF script \notin files
        THEN {FailedResult(task.name, "Unexpected error: Validator script not found: "
                                      \o script)}
        ELSE IF run.kind = "TimeoutExpired"
        THEN {FailedResult(task.name, "Validation timed out after 5 minutes")}
        ELSE IF run.kind # "exit"
        THEN {FailedResult(task.name, "Unexpected error: " \o run.kind)}
        ELSE IF run.returncode # 0
        THEN {FailedResult(task.name, "Validation failed with exit code "
                              \o ToString(run.returncode) \o ": " \o run.stderr)}
        ELSE {ValidationResult(task.name, TRUE, m, None) :
                 m \in _parse_validator_output(run.stdout, task.worktree_path, after)}

\* sorted(validation_tasks, key=rank of priority): a stable sort on three keys
PriorityRank(priority) ==
    IF priority = "high" THEN 0 ELSE IF priority = "medium" THEN 1 ELSE 2

sorted_tasks ==
    LET Of(r) == SelectSeq(validation_tasks, LAMBDA t : PriorityRank(t.priority) = r)
    IN  Of(0) \o Of(1) \o Of(2)

TierTasks(priority) == SelectSeq(sorted_tasks, LAMBDA t : t.priority = priority)
TierNames(priority) == {TierTasks(priority)[i].name : i \in 1..Len(TierTasks(priority))}

NextPhase(priority) ==
    IF priority = "high" THEN "medium" ELSE IF priority = "medium" THEN "low" ELSE "returned"

\* try: results.append(future.result()) / except Exception as e: results.append(failure)
AppendCompleted_dropped(res, task, fut) ==
    IF fut.exc = "" THEN Append(res, fut.ret) ELSE res

AppendCompleted(res, task, fut) ==
    IF fut.exc = "" THEN Append(res, fut.ret)
    ELSE Append(res, FailedResult(task.name, fut.exc))

(***************************************************************************)
(* Specification of execute_parallel_validation.  pool[t] is the position  *)
(* of task t: queued, submitted to the tier's executor, running on a       *)
(* worker thread, done (its future is complete), collected (as_completed   *)
(* has yielded it and the loop body has run).                              *)
(***************************************************************************)
OrchCounts == { [total_workflows |-> 3, total_models |-> 12,
                 found_models |-> 9, missing_models |-> 3] }

\* per task: no worktree, a worktree without the script, or both
TaskFiles(task) ==
    { {}, {task.worktree_path},
      {task.worktree_path, Join(task.worktree_path, task.validator_script)} }

RECURSIVE FileSystemsOf(_)
FileSystemsOf(tasks) ==
    IF tasks = <<>> THEN {{}}
    ELSE {a \cup b : a \in TaskFiles(Head(tasks)), b \in FileSystemsOf(Tail(tasks))}

OrchFileSystems == FileSystemsOf(validation_tasks)

RunOutcomes(task) ==
    {TimeoutExpired, RunOSError, Exited(1, <<>>, "")}
    \cup {Exited(0, ScriptStdout(task.validator_script, c), "") : c \in OrchCounts}

\* what future.result() re-raises when the worker died of something that
\* the try block of execute_validation_task does not cover (its prints)
WorkerError == "RuntimeError"

InitOrch ==
    /\ fs \in OrchFileSystems
    /\ phase = "high"
    /\ pool = [t \in TaskNames |-> "queued"]
    /\ future = [t \in TaskNames |-> Pending]
    /\ results = <<>>
    /\ printed = [t \in TaskNames |-> None]
    /\ analyzer = Idle /\ model_ref = Idle /\ full_path = Idle
    /\ IdleParse /\ IdleScrape /\ IdleProper /\ IdleRobust /\ IdleTool

OrchRest == <<analyzer, model_ref, full_path, parseVars, scrapeVars, properVars, robustVars, toolVars>>

\* if tier_tasks: ... future_to_task = {executor.submit(...): task for task in tier_tasks}
SubmitTier ==
    /\ phase \in {"high", "medium", "low"}
    /\ TierNames(phase) # {}
    /\ \A t \in TierNames(phase) : pool[t] = "queued"
    /\ pool' = [t \in TaskNames |-> IF t \in TierNames(phase) THEN "submitted" ELSE pool[t]]
    /\ UNCHANGED <<fs, phase, future, results, printed, OrchRest>>

\* a worker thread of the tier's executor takes the task
StartTask(t) ==
    /\ pool[t] = "submitted"
    /\ Cardinality({u \in TaskNames : pool[u] = "running"})
          < Min({max_workers, Len(TierTasks(phase))})
    /\ pool' = [pool EXCEPT ![t] = "running"]
    /\ UNCHANGED <<fs, phase, future, results, printed, OrchRest>>

\* the worker runs execute_validation_task(task) to its end
FinishTask(t) ==
    /\ pool[t] = "running"
    /\ LET task == TaskOf(t)
           ran == {task.worktree_path, Join(task.worktree_path, task.validator_script)}
                     \subseteq fs
       IN  \/ \E run \in RunOutcomes(task) :
                LET ok == ran /\ run.kind = "exit" /\ run.returncode = 0
                    after == IF ok THEN fs \cup {ScriptReportFile(task.validator_script)}
                             ELSE fs
                IN  /\ \E r \in execute_validation_task(task, fs, run, after) :
                          future' = [future EXCEPT ![t] = Returned(r)]
                    /\ fs' = after
                    /\ printed' = [printed EXCEPT ![t] =
                          IF ok THEN CHOOSE c \in OrchCounts :
                                        run.stdout = ScriptStdout(task.validator_script, c)
                          ELSE None]
           \/ /\ future' = [future EXCEPT ![t] = Raised(WorkerError)]
              /\ UNCHANGED <<fs, printed>>
    /\ pool' = [pool EXCEPT ![t] = "done"]
    /\ UNCHANGED <<phase, results, OrchRest>>

\* for future in as_completed(future_to_task): the loop body for one future
CollectResult(t) ==
    /\ pool[t] = "done"
    /\ results' = AppendCompleted(results, TaskOf(t), future[t])
    /\ pool' = [pool EXCEPT ![t] = "collected"]
    /\ UNCHANGED <<fs, phase, future, printed, OrchRest>>

\* leaving the with block of a tier: the as_completed loop has yielded every
\* future of the tier, and the executor's shutdown(wait=True) has returned
TierComplete_no_wait(priority) == TRUE

TierComplete(priority) == \A t \in TierNames(priority) : pool[t] = "collected"

\* the with block of the tier ends (or the tier was empty): on to the next
\* tier, and after the last one return results
CloseTier ==
    /\ phase \in {"high", "medium", "low"}
    /\ TierComplete(phase)
    /\ phase' = NextPhase(phase)
    /\ UNCHANGED <<fs, pool, future, results, printed, OrchRest>>

NextOrch ==
    \/ SubmitTier
    \/ \E t \in TaskNames : StartTask(t)
    \/ \E t \in TaskNames : FinishTask(t)
    \/ \E t \in TaskNames : CollectResult(t)
    \/ CloseTier

SpecOrch == InitOrch /\ [][NextOrch]_vars

\* C6 (as claimed): for each of the five validator scripts, when the script
\* exits with code 0 the four counts recorded in the task's ValidationResult
\* equal the four counts the script printed in its summary block.
Cex_C6 ==
    \A t \in TaskNames :
        (future[t] # Pending /\ future[t].exc = "" /\ future[t].ret.success) =>
            Counts(future[t].ret) = Counts(printed[t])

\* C9: the list execute_parallel_validation returns holds exactly one
\* ValidationResult per configured task, each task name exactly once,
\* whatever the completion order and the outcome of each task.
Thm_C9 ==
    phase = "returned" =>
        /\ Len(results) = Len(validation_tasks)
        /\ \A t \in TaskNames :
              Cardinality({i \in 1..Len(results) : results[i].task_name = t}) = 1

\* ---- C16 ----
TaskStarted(t) == pool[t] # "queued"
TaskFinished(t) == pool[t] \in {"done", "collected"}

PriorityOfResult(r) == TaskOf(r.task_name).priority

\* C16: a medium-priority task is handed to an executor only when every
\* high-priority task has finished, and a low-priority task only when every
\* medium-priority task has finished; in the list of results no result of a
\* lower priority precedes one of a higher priority.
Thm_C16 ==
    /\ \A t \in TierNames("medium") :
          TaskStarted(t) => \A h \in TierNames("high") : TaskFinished(h)
    /\ \A t \in TierNames("low") :
          TaskStarted(t) => \A m \in TierNames("medium") : TaskFinished(m)
    /\ \A i, j \in 1..Len(results) :
          i < j => PriorityRank(PriorityOfResult(results[i]))
                      <= PriorityRank(PriorityOfResult(results[j]))

\* the call returned all five results, and within the high and the medium
\* tier the task submitted second completed first
Witness_C16 ==
    /\ phase = "returned" /\ Len(results) = 5
    /\ results[1].task_name = "Wan2 Video Workflows"
    /\ results[3].task_name = "KJNodes Workflows"
    /\ results[5].task_name = "Generic Video Workflows"

\* a run returned in which the tier's second task completed first, one
\* future raised, one task timed out and one script exited with code 0
Witness_C9 ==
    /\ phase = "returned"
    /\ results[1].task_name = "Wan2 Video Workflows"
    /\ \E i \in 1..Len(results) : results[i].error_message = WorkerError
    /\ \E i \in 1..Len(results) :
          results[i].error_message = "Validation timed out after 5 minutes"
    /\ \E i \in 1..Len(results) : results[i].success

(***************************************************************************)
(* ProperVideoValidator: extract_model_references and its helpers.         *)
(* Widget values and input values are strings in the modelled documents;   *)
(* a node whose 'type' is JSON null has type None.                         *)
(***************************************************************************)
model_extensions == <<".safetensors", ".ckpt", ".pth", ".pt", ".bin", ".onnx">>

is_model_filename(filename) ==
    LET filename_lower == lower(filename)
    IN  \E i \in 1..Len(model_extensions) : endswith(filename_lower, model_extensions[i])

\* the same chain with the lora test ahead of the checkpoint test
determine_model_type_lora_first(node_type, filename) ==
    LET node_type_lower == lower(node_type)
        filename_lower == lower(filename)
    IN  IF Contains(node_type_lower, "ltx") \/ Contains(filename_lower, "ltx")
        THEN "ltx_video"
        ELSE IF Contains(filename_lower, "wan2") \/ Contains(node_type_lower, "wan")
        THEN "wan2_video"
        ELSE IF Contains(node_type_lower, "lora") \/ Contains(filename_lower, "lora")
        THEN "lora"
        ELSE IF Contains(node_type_lower, "checkpoint") THEN "checkpoint"
        ELSE IF Contains(node_type_lower, "vae") THEN "vae"
        ELSE IF Contains(node_type_lower, "clip") THEN "clip"
        ELSE IF Contains(node_type_lower, "controlnet") THEN "controlnet"
        ELSE IF Contains(node_type_lower, "upscale") \/ Contains(filename_lower, "esrgan")
        THEN "upscale"
        ELSE "unknown"

determine_model_type(node_type, filename) ==
    LET node_type_lower == lower(node_type)
        filename_lower == lower(filename)
    IN  IF Contains(node_type_lower, "ltx") \/ Contains(filename_lower, "ltx")
        THEN "ltx_video"
        ELSE IF Contains(filename_lower, "wan2") \/ Contains(node_type_lower, "wan")
        THEN "wan2_video"
        ELSE IF Contains(node_type_lower, "checkpoint") THEN "checkpoint"
        ELSE IF Contains(node_type_lower, "lora") \/ Contains(filename_lower, "lora")
        THEN "lora"
        ELSE IF Contains(node_type_lower, "vae") THEN "vae"
        ELSE IF Contains(node_type_lower, "clip") THEN "clip"
        ELSE IF Contains(node_type_lower, "controlnet") THEN "controlnet"
        ELSE IF Contains(node_type_lower, "upscale") \/ Contains(filename_lower, "esrgan")
        THEN "upscale"
        ELSE "unknown"

folder_map ==
    DictInputs(<<"ltx_video", "wan2_video", "checkpoint", "lora", "vae", "clip",
                 "controlnet", "upscale">>,
               <<"checkpoints", "checkpoints", "checkpoints", "loras", "vae", "clip",
                 "controlnet", "upscale_models">>)

guess_model_folder(model_type, filename) ==
    IF HasKey(folder_map, model_type) THEN DictGet(folder_map, model_type)
    ELSE "checkpoints"

\* the model_info dict; of 'index' and 'input_key' the one the source does
\* not set is None
model_info_of(value, node_id, node_type, source, index, input_key) ==
    [filename |-> value, node_id |-> node_id, node_type |-> node_type,
     source |-> source, index |-> index, input_key |-> input_key,
     model_type |-> determine_model_type(node_type, value),
     folder |-> guess_model_folder(determine_model_type(node_type, value), value)]

\* for i, value in enumerate(widgets_values): ...
Proper_widget_models(node_id, node) ==
    LET wv == node.widgets_values
        hit(i) == is_model_filename(wv[i])
        F[i \in 0..Len(wv)] ==
            IF i = 0 THEN <<>>
            ELSE IF hit(i)
            THEN Append(F[i - 1], model_info_of(wv[i], node_id, node.type,
                                                "widgets_values", i - 1, None))
            ELSE F[i - 1]
    IN  F[Len(wv)]

\* for input_info in inputs: if isinstance(input_info, dict): for key, value in ...
\* Iterating a dict of inputs yields its keys, which are not dicts.
Proper_input_models(node_id, node) ==
    LET inp == node.inputs
        F[i \in 0..Len(inp.vals)] ==
            IF i = 0 THEN <<>>
            ELSE IF is_model_filename(inp.vals[i])
            THEN Append(F[i - 1], model_info_of(inp.vals[i], node_id, node.type,
                                                "inputs", None, inp.keys[i]))
            ELSE F[i - 1]
    IN  IF inp.shape = "list" THEN F[Len(inp.vals)] ELSE <<>>

\* the node names some model file, so determine_model_type is called on its type
NodeNamesModel(node) ==
    \/ \E i \in 1..Len(node.widgets_values) : is_model_filename(node.widgets_values[i])
    \/ /\ node.inputs.shape = "list"
       /\ \E i \in 1..Len(node.inputs.vals) : is_model_filename(node.inputs.vals[i])

RECURSIVE Proper_extract_from(_, _)
Proper_extract_from(nodes, i) ==
    IF i > Len(nodes.keys) THEN Returned(<<>>)
    ELSE LET node == nodes.vals[i]
         IN  IF ~node.isdict THEN Proper_extract_from(nodes, i + 1)
             ELSE IF node.type = None /\ NodeNamesModel(node)
             THEN Raised("AttributeError")      \* None has no .lower()
             ELSE LET rest == Proper_extract_from(nodes, i + 1)
                  IN  IF rest.exc # "" THEN rest
                      ELSE Returned(Proper_widget_models(nodes.keys[i], node)
                                    \o Proper_input_models(nodes.keys[i], node)
                                    \o rest.ret)

Proper_extract_model_references(workflow_data) ==
    Proper_extract_from(workflow_data.nodes, 1)

(***************************************************************************)
(* Specification of extract_model_references alone: a standard-format      *)
(* document of one node, parsed and then searched for model references.    *)
(***************************************************************************)
MaxWidgets == 2

ExtractNodeTypes ==
    { "LTXVLoader", "WanVideoModelLoader", "CheckpointLoaderSimple", "LoraLoader",
      "VAELoader", "CLIPLoader", "ControlNetLoader", "UpscaleModelLoader",
      "UNETLoader", "", None }

ExtractValues ==
    { "a.safetensors", "LTX-2b.CKPT", "wan2_1.pt", "style_lora.pth",
      "RealESRGAN_x4.bin", "u.onnx", "notes.txt" }

ExtractInputs == {NoInputs} \cup {ListInputs(<<"model_name">>, <<v>>) : v \in ExtractValues}

ExtractDocs ==
    { MkDoc("dict", "nodes", "list", <<MkNode(TRUE, TRUE, 7, ty, "", wv, inp, 0, 0)>>) :
        ty \in ExtractNodeTypes, wv \in NodeSeqs(ExtractValues, MaxWidgets),
        inp \in ExtractInputs }

InitExtract ==
    /\ data \in ExtractDocs
    /\ parsed = Pending /\ models = Pending
    /\ simple_out = Idle /\ wt_result = Idle
    /\ workflows = Idle /\ all_results = Idle /\ summary = Idle /\ main_out = Idle
    /\ IdleResolve /\ IdleScrape /\ IdleOrch /\ IdleRobust /\ IdleTool

ExtractRest == <<data, simple_out, wt_result, workflows, all_results, summary, main_out,
                 resolveVars, scrapeVars, orchVars, robustVars, toolVars>>

ParseForExtract ==
    /\ parsed = Pending
    /\ parsed' = Returned(Proper_parse_workflow(data))
    /\ UNCHANGED <<models, ExtractRest>>

ExtractModelReferences ==
    /\ parsed # Pending /\ models = Pending
    /\ models' = Proper_extract_model_references(parsed.ret)
    /\ UNCHANGED <<parsed, ExtractRest>>

NextExtract == ParseForExtract \/ ExtractModelReferences

SpecExtract == InitExtract /\ [][NextExtract]_vars

\* ---- C8 ----
ModelCategoryTests(node_type, filename) ==
    LET nt == lower(node_type)
        fn == lower(filename)
    IN  << <<"ltx_video", Contains(nt, "ltx") \/ Contains(fn, "ltx")>>,
           <<"wan2_video", Contains(fn, "wan2") \/ Contains(nt, "wan")>>,
           <<"checkpoint", Contains(nt, "checkpoint")>>,
           <<"lora", Contains(nt, "lora") \/ Contains(fn, "lora")>>,
           <<"vae", Contains(nt, "vae")>>,
           <<"clip", Contains(nt, "clip")>>,
           <<"controlnet", Contains(nt, "controlnet")>>,
           <<"upscale", Contains(nt, "upscale") \/ Contains(fn, "esrgan")>> >>

FirstMatching(tests) ==
    LET hits == {i \in 1..Len(tests) : tests[i][2]}
    IN  IF hits = {} THEN "unknown" ELSE tests[Min(hits)][1]

FolderOfCategory(category) ==
    IF category \in {"ltx_video", "wan2_video", "checkpoint", "unknown"} THEN "checkpoints"
    ELSE IF category = "lora" THEN "loras"
    ELSE IF category = "upscale" THEN "upscale_models"
    ELSE category

EndsInModelExtension(text) ==
    \E ext \in {".safetensors", ".ckpt", ".pth", ".pt", ".bin", ".onnx"} :
        endswith(lower(text), ext)

\* C8: every reference extract_model_references returns names a string that
\* ends, case-insensitively, in a model extension, carries the category of
\* the first matching test in the order ltx, wan2, checkpoint, lora, vae,
\* clip, controlnet, upscale (unknown when none matches), and the folder
\* guess_model_folder gives that category ('checkpoints' for unknown).
Thm_C8 ==
    (models # Pending /\ models.exc = "") =>
        \A i \in 1..Len(models.ret) :
            LET ref == models.ret[i]
            IN  /\ EndsInModelExtension(ref.filename)
                /\ ref.model_type = FirstMatching(ModelCategoryTests(ref.node_type, ref.filename))
                /\ ref.folder = FolderOfCategory(ref.model_type)

\* one checkpoint-loader node yields three references: a lora-looking file
\* tagged checkpoint, a file with an upper-case extension, one from inputs
Witness_C8 ==
    /\ models # Pending /\ models.exc = "" /\ Len(models.ret) = 3
    /\ models.ret[1].node_type = "CheckpointLoaderSimple"
    /\ models.ret[1].filename = "style_lora.pth"
    /\ models.ret[1].model_type = "checkpoint"
    /\ models.ret[2].filename = "LTX-2b.CKPT"
    /\ models.ret[3].source = "inputs"

(***************************************************************************)
(* ProperVideoValidator: check_model_exists, validate_video_workflow and   *)
(* validate_all_workflows.  In this part a member of fs ending in "/" is   *)
(* a directory and every other member a regular file; a directory also     *)
(* exists when something below it does.                                    *)
(***************************************************************************)
startswith(text, prefix) ==
    Len(text) >= Len(prefix) /\ SubSeq(text, 1, Len(prefix)) = prefix

PathExists(path, files) ==
    path \in files \/ \E f \in files : startswith(f, path \o "/")

model_paths ==
    << Join(comfyui_path, "models"), "/home/ned/Models",
       "/home/ned/Projects/AI_ML/SwarmUI/models" >>

folder_variations ==
    <<"checkpoints", "loras", "vae", "clip", "controlnet", "upscale_models", "unet", "models">>

\* for folder in folder_variations: if check_path.exists(): append; break
FirstVariation(model_path, filename, files) ==
    LET hits == {i \in 1..Len(folder_variations) :
                    PathExists(Join(Join(model_path, folder_variations[i]), filename), files)}
    IN  IF hits = {} THEN <<>>
        ELSE <<Join(Join(model_path, folder_variations[Min(hits)]), filename)>>

\* search_path.rglob(filename) filtered by is_file(): the regular files named
\* filename at any depth below search_path
rglob_files(search_path, filename, files) ==
    {f \in files : startswith(f, search_path \o "/") /\ endswith(f, "/" \o filename)}

recursive_folders == <<"checkpoints", "loras", "vae">>

\* the recursive search, looking below the first folder only
RecursiveSearch_first_folder(model_path, filename, files) ==
    LET hits(i) == rglob_files(Join(model_path, recursive_folders[i]), filename, files)
        with == {i \in 1..1 : hits(i) # {}}
    IN  IF with = {} THEN {<<>>} ELSE {<<f>> : f \in hits(Min(with))}

\* The recursive search of one root: the first of the three folders that
\* exists and holds a match yields one match (rglob has no fixed order).
RecursiveSearch(model_path, filename, files) ==
    LET hits(i) == rglob_files(Join(model_path, recursive_folders[i]), filename, files)
        with == {i \in 1..Len(recursive_folders) : hits(i) # {}}
    IN  IF with = {} THEN {<<>>} ELSE {<<f>> : f \in hits(Min(with))}

\* the loop over self.model_paths; the result is the set of found_paths
\* lists the call can end with
RECURSIVE check_roots(_, _, _, _)
check_roots(model_info, roots, found_paths, files) ==
    IF roots = <<>> THEN {found_paths}
    ELSE LET model_path == Head(roots)
             direct_path == Join(Join(model_path, model_info.folder), model_info.filename)
             varied == found_paths \o FirstVariation(model_path, model_info.filename, files)
         IN  IF ~PathExists(model_path, files)
             THEN check_roots(model_info, Tail(roots), found_paths, files)
             ELSE IF PathExists(direct_path, files)
             THEN check_roots(model_info, Tail(roots), Append(found_paths, direct_path), files)
             ELSE IF varied # <<>>
             THEN check_roots(model_info, Tail(roots), varied, files)
             ELSE UNION { check_roots(model_info, Tail(roots), found, files) :
                            found \in RecursiveSearch(model_path, model_info.filename, files) }

check_model_exists(model_info, files) ==
    { [exists |-> Len(found_paths) > 0, found_paths |-> found_paths] :
        found_paths \in check_roots(model_info, model_paths, <<>>, files) }

(***************************************************************************)
(* SimpleVideoValidator.check_model_exists                                 *)
(***************************************************************************)
\* str.replace(old, new) for one-character strings
RECURSIVE replace(_, _, _)
replace(text, old, new) ==
    IF text = "" THEN ""
    ELSE (IF SubSeq(text, 1, 1) = old THEN new ELSE SubSeq(text, 1, 1))
            \o replace(SubSeq(text, 2, Len(text)), old, new)

Simple_folder_variations(folder) ==
    <<folder, lower(folder), replace(folder, "_", "-"), replace(folder, "-", "_")>>

\* for folder_var in folder_variations: if check_path.exists(): append; break
Simple_FirstVariation(model_path, folder, filename, files) ==
    LET vars_ == Simple_folder_variations(folder)
        hits == {i \in 1..Len(vars_) :
                    PathExists(Join(Join(model_path, vars_[i]), filename), files)}
    IN  IF hits = {} THEN <<>>
        ELSE <<Join(Join(model_path, vars_[Min(hits)]), filename)>>

\* for found_file in model_path.rglob(filename): if is_file: append; break
Simple_RecursiveSearch(model_path, filename, files) ==
    LET hits == rglob_files(model_path, filename, files)
    IN  IF hits = {} THEN {<<>>} ELSE {<<f>> : f \in hits}

\* the loop over self.model_paths of the Simple validator
RECURSIVE Simple_check_roots(_, _, _, _)
Simple_check_roots(model_info, roots, found_paths, files) ==
    IF roots = <<>> THEN {found_paths}
    ELSE LET model_path == Head(roots)
             direct_path == Join(Join(model_path, model_info.folder), model_info.filename)
             varied == found_paths \o Simple_FirstVariation(model_path, model_info.folder,
                                                            model_info.filename, files)
         IN  IF ~PathExists(model_path, files)
             THEN Simple_check_roots(model_info, Tail(roots), found_paths, files)
             ELSE IF PathExists(direct_path, files)
             THEN Simple_check_roots(model_info, Tail(roots),
                                     Append(found_paths, direct_path), files)
             ELSE IF varied # <<>>
             THEN Simple_check_roots(model_info, Tail(roots), varied, files)
             ELSE UNION { Simple_check_roots(model_info, Tail(roots), found, files) :
                            found \in Simple_RecursiveSearch(model_path,
                                                             model_info.filename, files) }

\* check_model_exists of either validator on the roots as configured
check_model_exists_in(validator, model_info, roots, files) ==
    { [exists |-> Len(found_paths) > 0, found_paths |-> found_paths] :
        found_paths \in (IF validator = "proper"
                         THEN check_roots(model_info, roots, <<>>, files)
                         ELSE Simple_check_roots(model_info, roots, <<>>, files)) }

\* if exists: results['found_models'] += 1 / else: results['missing_models'] += 1
Tally_both(result, model_result) ==
    [result EXCEPT !.found_models = @ + 1, !.missing_models = @ + 1,
                   !.models_detail = Append(@, model_result)]

Tally(result, model_result) ==
    IF model_result.exists
    THEN [result EXCEPT !.found_models = @ + 1, !.models_detail = Append(@, model_result)]
    ELSE [result EXCEPT !.missing_models = @ + 1, !.models_detail = Append(@, model_result)]

model_result_of(model_info, checked) ==
    [filename |-> model_info.filename, node_id |-> model_info.node_id,
     node_type |-> model_info.node_type, source |-> model_info.source,
     index |-> model_info.index, input_key |-> model_info.input_key,
     model_type |-> model_info.model_type, folder |-> model_info.folder,
     exists |-> checked.exists, found_paths |-> checked.found_paths]

\* for model_info in models: ... ; the set of results the loop can end with
RECURSIVE CheckModels(_, _, _)
CheckModels(result, model_infos, files) ==
    IF model_infos = <<>> THEN {result}
    ELSE UNION { CheckModels(Tally(result, model_result_of(Head(model_infos), checked)),
                             Tail(model_infos), files) :
                   checked \in check_model_exists(Head(model_infos), files) }

\* a per-workflow entry; 'error', 'models_detail' and 'total_nodes' are None
\* when the dict has no such key
WorkflowResult(workflow_file, total_nodes, total_models, models_detail, error) ==
    [workflow_file |-> workflow_file, total_nodes |-> total_nodes,
     total_models |-> total_models, found_models |-> 0, missing_models |-> 0,
     models_detail |-> models_detail, error |-> error]

\* the set of outcomes [exc, ret] of validate_video_workflow
validate_video_workflow(workflow, files) ==
    LET workflow_data == Proper_parse_workflow(workflow.doc)
        extracted == Proper_extract_model_references(workflow_data)
    IN  IF workflow_data.total_nodes = 0
        THEN {Returned(WorkflowResult(workflow.workflow_file, 0, 0, <<>>,
                                      "No valid nodes found in workflow"))}
        ELSE IF extracted.exc # "" THEN {extracted}
        ELSE {Returned(r) :
                r \in CheckModels(WorkflowResult(workflow.workflow_file,
                                                 workflow_data.total_nodes,
                                                 Len(extracted.ret), <<>>, None),
                                  extracted.ret, files)}

\* the entry validate_all_workflows records when validate_video_workflow raised
ErrorEntry_without_error(workflow_file, e) == WorkflowResult(workflow_file, 0, 0, None, None)

ErrorEntry(workflow_file, e) == WorkflowResult(workflow_file, 0, 0, None, e)

\* SimpleVideoValidator.validate_video_workflow: {**model_info, 'exists', 'found_paths'}
Simple_model_result_of(model_info, checked) ==
    [filename |-> model_info.filename, node_id |-> model_info.node_id,
     node_type |-> model_info.node_type, input_name |-> model_info.input_name,
     model_type |-> model_info.model_type, folder |-> model_info.folder,
     exists |-> checked.exists, found_paths |-> checked.found_paths]

RECURSIVE Simple_CheckModels(_, _, _)
Simple_CheckModels(result, model_infos, files) ==
    IF model_infos = <<>> THEN {result}
    ELSE UNION { Simple_CheckModels(
                     Tally(result, Simple_model_result_of(Head(model_infos), checked)),
                     Tail(model_infos), files) :
                   checked \in check_model_exists_in("simple", Head(model_infos),
                                                     model_paths, files) }

\* the set of outcomes [exc, ret]; the Simple validator's dicts have no
\* 'total_nodes' and, unless the workflow raised, no 'error'
Simple_validate_video_workflow(workflow, files) ==
    LET workflow_data == Simple_parse_workflow(workflow.doc)
        extracted == Simple_extract_model_references(workflow_data)
    IN  IF extracted.exc # "" THEN {extracted}
        ELSE {Returned(r) :
                r \in Simple_CheckModels(WorkflowResult(workflow.workflow_file, None,
                                                        Len(extracted.ret), <<>>, None),
                                         extracted.ret, files)}

Simple_ErrorEntry(workflow_file, e) == WorkflowResult(workflow_file, None, 0, None, e)

\* the try block and the except block of the loop of validate_all_workflows
ValidateOne(validator, workflow, files) ==
    IF validator = "proper"
    THEN { IF o.exc = "" THEN o.ret ELSE ErrorEntry(workflow.workflow_file, o.exc) :
             o \in validate_video_workflow(workflow, files) }
    ELSE { IF o.exc = "" THEN o.ret ELSE Simple_ErrorEntry(workflow.workflow_file, o.exc) :
             o \in Simple_validate_video_workflow(workflow, files) }

\* sum(r.get(field, 0) for r in all_results)
RECURSIVE SumOf(_, _)
SumOf(entries, field) ==
    IF entries = <<>> THEN 0 ELSE Head(entries)[field] + SumOf(Tail(entries), field)

\* timestamp and success_rate are left out
Simple_SummaryOf(entries) ==
    [total_workflows |-> Len(entries),
     total_models |-> SumOf(entries, "total_models"),
     found_models |-> SumOf(entries, "found_models"),
     missing_models |-> SumOf(entries, "missing_models"),
     workflows |-> entries]

SummaryOf(entries) ==
    [total_workflows |-> Len(entries),
     total_nodes |-> SumOf(entries, "total_nodes"),
     total_models |-> SumOf(entries, "total_models"),
     found_models |-> SumOf(entries, "found_models"),
     missing_models |-> SumOf(entries, "missing_models"),
     workflows |-> entries]

(***************************************************************************)
(* Specification of a validator run: either main of the Proper or the     *)
(* Simple validator, which runs validate_all_workflows over the discovered *)
(* workflows, or validate_workflow of the LTX worktree validator on one    *)
(* file.                                                                   *)
(***************************************************************************)
MaxWorkflows == 2

PCkpt == MkNode(TRUE, TRUE, 1, "CheckpointLoaderSimple", "", <<"a.ckpt">>,
                ListInputs(<<"name">>, <<"model">>), 0, 0)
PLtx  == MkNode(TRUE, TRUE, 2, "LTXVLoader", "", <<"ltx.safetensors">>, NoInputs, 0, 0)
PLora == MkNode(TRUE, TRUE, 3, "LoraLoader", "", <<"b.safetensors", "1.0">>,
                ListInputs(<<"lora_name">>, <<"a.ckpt">>), 0, 0)
PNull == MkNode(TRUE, TRUE, 4, None, "", <<"a.ckpt">>, NoInputs, 0, 0)

ProperDocs ==
    { MkDoc("unreadable", "", "list", <<>>),
      MkDoc("dict", "nodes", "list", <<PCkpt>>),
      MkDoc("dict", "nodes", "list", <<PCkpt, PLtx>>),
      MkDoc("dict", "nodes", "list", <<StdNote>>),
      MkDoc("dict", "nodes", "list", <<PNull>>),
      MkDoc("dict", "nodes", "list", <<PLora>>),
      MkDoc("dict", "nodes", "mapping", <<PCkpt>>),
      MkDoc("list", "", "list", <<ApiCkpt>>) }

ProperFiles ==
    { Join(Join(comfyui_path, "models"), "checkpoints/a.ckpt"),
      "/home/ned/Models/unet/a.ckpt",
      "/home/ned/Models/loras/sub/ltx.safetensors",
      "/home/ned/Models/loras/sub2/ltx.safetensors",
      "/home/ned/Projects/AI_ML/SwarmUI/models/" }

\* find_video_workflows returns distinct paths in sorted order
WorkflowFile(i) == Join(Join(comfyui_path, "workflows"), "video_" \o ToString(i) \o ".json")

DiscoveredWorkflows ==
    { [i \in 1..Len(docs) |-> [workflow_file |-> WorkflowFile(i), doc |-> docs[i]]] :
        docs \in NodeSeqs(ProperDocs, MaxWorkflows) }

LtxDocs ==
    { MkDoc("unreadable", "", "list", <<>>) }
    \cup { MkDoc("dict", "nodes", "mapping", e) :
             e \in NodeSeqs({ApiCkpt, ApiVideo, ApiSave}, MaxNodes) }

InitValidate ==
    /\ \/ /\ analyzer \in {"proper", "simple"}
          /\ workflows \in DiscoveredWorkflows
          /\ all_results = <<>> /\ summary = Pending /\ main_out = Pending
          /\ fs \in SUBSET ProperFiles
          /\ data = Idle /\ wt_result = Idle
       \/ /\ analyzer = "ltx"
          /\ data \in LtxDocs /\ wt_result = Pending
          /\ fs \in SUBSET ParseFiles
          /\ workflows = Idle /\ all_results = Idle /\ summary = Idle
          /\ main_out = Idle
    /\ models = Idle /\ parsed = Idle /\ simple_out = Idle
    /\ model_ref = Idle /\ full_path = Idle
    /\ IdleScrape /\ IdleOrch /\ IdleRobust /\ IdleTool

ValidateRest == <<fs, analyzer, model_ref, full_path, parseVars, models,
                  scrapeVars, orchVars, robustVars, toolVars>>

\* if not workflows: return {}
ReturnEmpty ==
    /\ analyzer \in {"proper", "simple"} /\ summary = Pending
    /\ workflows = <<>>
    /\ summary' = Returned(EmptyDict)
    /\ UNCHANGED <<workflows, all_results, main_out, ValidateRest>>

\* one pass of the loop over workflows: the try block or the except block
ValidateWorkflow ==
    /\ analyzer \in {"proper", "simple"} /\ summary = Pending
    /\ Len(all_results) < Len(workflows)
    /\ \E entry \in ValidateOne(analyzer, workflows[Len(all_results) + 1], fs) :
          all_results' = Append(all_results, entry)
    /\ UNCHANGED <<workflows, summary, main_out, ValidateRest>>

\* after the loop: the summary dict is built and returned
GenerateSummary ==
    /\ analyzer \in {"proper", "simple"} /\ summary = Pending
    /\ workflows # <<>> /\ Len(all_results) = Len(workflows)
    /\ summary' = Returned(IF analyzer = "proper" THEN SummaryOf(all_results)
                           ELSE Simple_SummaryOf(all_results))
    /\ UNCHANGED <<workflows, all_results, main_out, ValidateRest>>

\* what open() on the results file does: it returns, or raises because the
\* directory is missing or not writable
SaveOutcomes == {"", "OSError"}

\* main, from the value validate_all_workflows returned on: the results are
\* saved if truthy, and the status is results.get('missing_models', 0) == 0;
\* an exception inside the try gives status 1
main_empty_is_failure(main_results, save) ==
    IF main_results = EmptyDict THEN [status |-> 1, saved |-> FALSE, exc |-> ""]
    ELSE IF save # "" THEN [status |-> 1, saved |-> FALSE, exc |-> save]
    ELSE [status |-> IF main_results.missing_models = 0 THEN 0 ELSE 1,
          saved |-> TRUE, exc |-> ""]

main(main_results, save) ==
    IF main_results = EmptyDict THEN [status |-> 0, saved |-> FALSE, exc |-> ""]
    ELSE IF save # "" THEN [status |-> 1, saved |-> FALSE, exc |-> save]
    ELSE [status |-> IF main_results.missing_models = 0 THEN 0 ELSE 1,
          saved |-> TRUE, exc |-> ""]

Main ==
    /\ analyzer \in {"proper", "simple"}
    /\ summary # Pending /\ main_out = Pending
    /\ \E save \in SaveOutcomes : main_out' = main(summary.ret, save)
    /\ UNCHANGED <<workflows, all_results, summary, ValidateRest>>

NextValidate == ReturnEmpty \/ ValidateWorkflow \/ GenerateSummary \/ Main \/ LTXValidate

SpecValidate == InitValidate /\ [][NextValidate]_vars

\* ---- C7 ----
Balanced(r) == r.found_models + r.missing_models = r.total_models

Total(entries, field) ==
    LET F[i \in 0..Len(entries)] == IF i = 0 THEN 0 ELSE F[i - 1] + entries[i][field]
    IN  F[Len(entries)]

\* C7: in every per-workflow result found_models + missing_models =
\* total_models; an entry recorded with an error counts 0 models; the
\* summary's total, found and missing are the sums over all entries, so
\* found + missing = total holds for the summary as well.
Thm_C7 ==
    /\ analyzer = "proper" =>
          /\ \A i \in 1..Len(all_results) :
                /\ Balanced(all_results[i])
                /\ all_results[i].error # None =>
                      /\ all_results[i].total_models = 0
                      /\ all_results[i].found_models = 0
                      /\ all_results[i].missing_models = 0
          /\ (summary # Pending /\ summary.ret # EmptyDict) =>
                /\ summary.ret.workflows = all_results
                /\ summary.ret.total_models = Total(all_results, "total_models")
                /\ summary.ret.found_models = Total(all_results, "found_models")
                /\ summary.ret.missing_models = Total(all_results, "missing_models")
                /\ Balanced(summary.ret)
    /\ (analyzer = "ltx" /\ wt_result # Pending /\ wt_result.exc = "") =>
          Balanced(wt_result.ret)

\* a summary over two workflows: one recorded with the exception it raised,
\* one with a model that was found and a model that is missing
Witness_C7 ==
    /\ analyzer = "proper" /\ summary # Pending /\ Len(all_results) = 2
    /\ all_results[1].error = "AttributeError"
    /\ all_results[2].found_models = 1 /\ all_results[2].missing_models = 1
    /\ summary.ret.total_models = 2

\* ---- C17 ----
\* the workflow's validate_video_workflow raises
Fails(validator, workflow) ==
    IF validator = "proper"
    THEN \E o \in validate_video_workflow(workflow, fs) : o.exc # ""
    ELSE \E o \in Simple_validate_video_workflow(workflow, fs) : o.exc # ""

\* C17: in validate_all_workflows of the Proper and of the Simple validator
\* an exception raised while one workflow is validated does not abort the
\* run: the loop records entry i for discovered workflow i, the returned
\* 'workflows' list has exactly one entry per discovered workflow, in
\* discovery order, and a workflow whose validation raised is recorded as an
\* entry carrying 'error' with total_models, found_models and missing_models 0.
Thm_C17 ==
    analyzer \in {"proper", "simple"} =>
        /\ Len(all_results) <= Len(workflows)
        /\ \A i \in 1..Len(all_results) :
              /\ all_results[i].workflow_file = workflows[i].workflow_file
              /\ Fails(analyzer, workflows[i]) =>
                    /\ all_results[i].error \notin {None, ""}
                    /\ all_results[i].total_models = 0
                    /\ all_results[i].found_models = 0
                    /\ all_results[i].missing_models = 0
        /\ (summary # Pending /\ workflows # <<>>) =>
              /\ summary.exc = ""
              /\ Len(summary.ret.workflows) = Len(workflows)
              /\ summary.ret.workflows = all_results

\* a finished run of the Simple validator over two workflows, the first of
\* which raised and the second of which was validated after it
Witness_C17 ==
    /\ analyzer = "simple" /\ summary # Pending /\ Len(workflows) = 2
    /\ Fails("simple", workflows[1])
    /\ summary.ret.workflows[1].error = "AttributeError"
    /\ summary.ret.workflows[2].error = None
    /\ summary.ret.workflows[2].total_models = 1

\* ---- C19 ----
\* C19: main of the Proper and of the Simple validator returns exit status 1
\* if the summary counts at least one missing model or if an exception
\* reached main's except block, and exit status 0 otherwise; the status is 0
\* when no video workflows were found.
Thm_C19 ==
    (analyzer \in {"proper", "simple"} /\ main_out # Pending) =>
        /\ main_out.status \in {0, 1}
        /\ main_out.status = 1 <=>
              \/ main_out.exc # ""
              \/ \E i \in 1..Len(all_results) : all_results[i].missing_models > 0
        /\ workflows = <<>> => main_out.status = 0

\* main returned 0 because no video workflow was found
Witness_C19 ==
    /\ analyzer = "proper" /\ main_out # Pending
    /\ workflows = <<>> /\ summary.ret = EmptyDict /\ main_out.status = 0

(***************************************************************************)
(* robust_browser_automation.py: detect_and_setup_best_method with the     *)
(* three setup coroutines and cleanup_partial_setup.  partial tells which  *)
(* of the object's handles are set (not None).                             *)
(***************************************************************************)
Libraries == {"playwright", "selenium", "websockets", "aiohttp"}

playwright_available == "playwright" \in available
selenium_available == "selenium" \in available
websockets_available == "websockets" \in available
aiohttp_available == "aiohttp" \in available

NoHandles == [playwright_instance |-> FALSE, browser |-> FALSE, chrome_process |-> FALSE,
              websocket |-> FALSE, driver |-> FALSE]

\* the list with selenium appended ahead of cdp
methods_selenium_first ==
    (IF playwright_available THEN <<"playwright">> ELSE <<>>)
    \o (IF selenium_available THEN <<"selenium">> ELSE <<>>)
    \o (IF websockets_available /\ aiohttp_available THEN <<"cdp">> ELSE <<>>)

methods ==
    (IF playwright_available THEN <<"playwright">> ELSE <<>>)
    \o (IF websockets_available /\ aiohttp_available THEN <<"cdp">> ELSE <<>>)
    \o (IF selenium_available THEN <<"selenium">> ELSE <<>>)

SetupOutcome(ret, handles) == [exc |-> "", ret |-> ret, handles |-> handles]

\* start() fails; or every launch (or the context) fails after start();
\* or all succeed.  Every exception is caught and turned into False.
setup_playwright(handles) ==
    IF ~playwright_available THEN {SetupOutcome(FALSE, handles)}
    ELSE { SetupOutcome(FALSE, handles),
           SetupOutcome(FALSE, [handles EXCEPT !.playwright_instance = TRUE]),
           SetupOutcome(FALSE, [handles EXCEPT !.playwright_instance = TRUE,
                                               !.browser = TRUE]),
           SetupOutcome(TRUE, [handles EXCEPT !.playwright_instance = TRUE,
                                              !.browser = TRUE]) }

\* The names aiohttp and websockets are bound only inside safe_import, so
\* each connection test raises NameError; the attempt's handler terminates
\* Chrome and resets chrome_process, and after the loop the coroutine raises
\* and returns False.
setup_cdp(handles) ==
    {SetupOutcome(FALSE, [handles EXCEPT !.chrome_process = FALSE])}

\* Chrome() fails; or set_page_load_timeout fails on the new driver; or
\* both succeed
setup_selenium(handles) ==
    IF ~selenium_available THEN {SetupOutcome(FALSE, handles)}
    ELSE { SetupOutcome(FALSE, handles),
           SetupOutcome(FALSE, [handles EXCEPT !.driver = TRUE]),
           SetupOutcome(TRUE, [handles EXCEPT !.driver = TRUE]) }

setup_method(method, handles) ==
    IF method = "playwright" THEN setup_playwright(handles)
    ELSE IF method = "cdp" THEN setup_cdp(handles)
    ELSE setup_selenium(handles)

\* The handles cleanup_partial_setup can leave: the handle of the method is
\* reset, or the closing call raised and the handle stays (the exception
\* is caught inside).
cleanup_partial_setup(method, handles) ==
    IF method = "playwright" /\ handles.playwright_instance
    THEN {[handles EXCEPT !.playwright_instance = FALSE], handles}
    ELSE IF method = "cdp" /\ handles.chrome_process
    THEN {[handles EXCEPT !.chrome_process = FALSE], handles}
    ELSE IF method = "cdp" /\ handles.websocket
    THEN {[handles EXCEPT !.websocket = FALSE], handles}
    ELSE IF method = "selenium" /\ handles.driver
    THEN {[handles EXCEPT !.driver = FALSE], handles}
    ELSE {handles}

At(i, step) == [i |-> i, step |-> step]
Done == [i |-> 0, step |-> "done"]

InitRobust ==
    /\ available \in SUBSET Libraries
    /\ rb_pc = At(1, "setup")
    /\ automation_method = None
    /\ partial = NoHandles
    /\ tried = <<>> /\ cleaned = <<>>
    /\ rb_out = Pending
    /\ IdleResolve /\ IdleParse /\ IdleScrape /\ IdleOrch /\ IdleProper /\ IdleTool

RobustRest == <<resolveVars, parseVars, scrapeVars, orchVars, properVars, toolVars>>

\* one pass of the loop up to the test of success: the setup call, and on
\* success the assignment and the return
TrySetup ==
    /\ rb_pc.step = "setup" /\ rb_pc.i <= Len(methods)
    /\ LET method == methods[rb_pc.i]
       IN  \E o \in setup_method(method, partial) :
              /\ partial' = o.handles
              /\ tried' = Append(tried, [method |-> method,
                                         success |-> o.exc = "" /\ o.ret])
              /\ IF o.exc = "" /\ o.ret
                 THEN /\ automation_method' = method
                      /\ rb_out' = Returned(method)
                      /\ rb_pc' = Done
                 ELSE /\ rb_pc' = At(rb_pc.i, "cleanup")
                      /\ UNCHANGED <<automation_method, rb_out>>
    /\ UNCHANGED <<available, cleaned, RobustRest>>

\* await self.cleanup_partial_setup(method), then on to the next method
CleanupPartialSetup ==
    /\ rb_pc.step = "cleanup"
    /\ LET method == methods[rb_pc.i]
       IN  /\ partial' \in cleanup_partial_setup(method, partial)
           /\ cleaned' = Append(cleaned, method)
    /\ rb_pc' = At(rb_pc.i + 1, "setup")
    /\ UNCHANGED <<available, automation_method, tried, rb_out, RobustRest>>

\* the loop is exhausted: raise Exception("No browser automation method ...")
RaiseNoMethod ==
    /\ rb_pc.step = "setup" /\ rb_pc.i > Len(methods)
    /\ rb_out' = Raised("Exception")
    /\ rb_pc' = Done
    /\ UNCHANGED <<available, automation_method, partial, tried, cleaned, RobustRest>>

NextRobust == TrySetup \/ CleanupPartialSetup \/ RaiseNoMethod

SpecRobust == InitRobust /\ [][NextRobust]_vars

\* ---- C10 ----
MethodOrder == <<"playwright", "cdp", "selenium">>

MethodUsable(method) ==
    IF method = "playwright" THEN "playwright" \in available
    ELSE IF method = "cdp" THEN {"websockets", "aiohttp"} \subseteq available
    ELSE "selenium" \in available

UsableInOrder == SelectSeq(MethodOrder, MethodUsable)

\* C10: the methods are tried in the order playwright, cdp, selenium,
\* restricted to the available libraries; a method is tried only after
\* every earlier one failed and cleanup_partial_setup was called for it; the
\* call returns the first method whose setup succeeds, with
\* automation_method set to it; when no method succeeded the call ends by
\* raising, and it raises in no other case.
Thm_C10 ==
    /\ Len(tried) <= Len(UsableInOrder)
    /\ \A i \in 1..Len(tried) : tried[i].method = UsableInOrder[i]
    /\ \A i \in 1..(Len(tried) - 1) : ~tried[i].success
    /\ Len(cleaned) <= Len(tried) /\ Len(cleaned) >= Len(tried) - 1
    /\ \A i \in 1..Len(cleaned) : cleaned[i] = tried[i].method /\ ~tried[i].success
    /\ (rb_out # Pending /\ rb_out.exc = "") =>
          /\ tried # <<>> /\ tried[Len(tried)].success
          /\ rb_out.ret = tried[Len(tried)].method
          /\ automation_method = rb_out.ret
    /\ (rb_out # Pending /\ rb_out.exc # "") =>
          /\ Len(tried) = Len(UsableInOrder) /\ Len(cleaned) = Len(tried)
          /\ automation_method = None
    /\ rb_out = Pending => automation_method = None
    /\ rb_pc = Done => rb_out # Pending
    /\ (rb_pc = Done /\ \A i \in 1..Len(tried) : ~tried[i].success) =>
          rb_out = Raised("Exception")

\* playwright and cdp failed and were cleaned up, then selenium succeeded
Witness_C10 ==
    /\ rb_out = Returned("selenium") /\ automation_method = "selenium"
    /\ Len(tried) = 3 /\ cleaned = <<"playwright", "cdp">>

(***************************************************************************)
(* ComfyUIBrowserAutomation.setup (browser_automation_setup.py)            *)
(***************************************************************************)
ImportFlags == {"PLAYWRIGHT_AVAILABLE", "CDP_AVAILABLE", "SELENIUM_AVAILABLE"}

FlagOf(method) ==
    IF method = "playwright" THEN "PLAYWRIGHT_AVAILABLE"
    ELSE IF method = "cdp" THEN "CDP_AVAILABLE"
    ELSE "SELENIUM_AVAILABLE"

\* detect_best_method: the first flag that is set, else it raises
detect_best_method(flags) ==
    IF "PLAYWRIGHT_AVAILABLE" \in flags THEN Returned("playwright")
    ELSE IF "CDP_AVAILABLE" \in flags THEN Returned("cdp")
    ELSE IF "SELENIUM_AVAILABLE" \in flags THEN Returned("selenium")
    ELSE Raised("Exception")

\* setup_playwright / setup_cdp / setup_selenium: the body is wrapped in
\* try / except Exception, so each call returns True or False
bas_setup_method(method) == {TRUE, FALSE}

\* the method setup() hands the call to: the preferred one when its flag is
\* set, otherwise whatever detect_best_method answers
bas_selected(preferred, flags) ==
    IF preferred \in {"playwright", "cdp", "selenium"} /\ FlagOf(preferred) \in flags
    THEN Returned(preferred)
    ELSE detect_best_method(flags)

PreferredMethods == {None, "playwright", "cdp", "selenium", "firefox"}

InitSetup ==
    /\ import_flags \in SUBSET ImportFlags
    /\ preferred_method \in PreferredMethods
    /\ setup_calls = <<>>
    /\ bas_method = None
    /\ setup_out = Pending
    /\ IdleResolve /\ IdleParse /\ IdleScrape /\ IdleOrch /\ IdleProper /\ IdleRobust
    /\ IdleRepair /\ IdleDep /\ IdleTask /\ IdleCheck /\ IdleGeneric /\ IdleHealth

\* ComfyUIBrowserAutomation.setup(headless, preferred_method)
BasSetup ==
    /\ setup_out = Pending
    /\ LET sel == bas_selected(preferred_method, import_flags)
       IN  IF sel.exc # ""
           THEN /\ setup_out' = sel
                /\ UNCHANGED <<setup_calls, bas_method>>
           ELSE \E ok \in bas_setup_method(sel.ret) :
                   /\ setup_calls' = Append(setup_calls,
                                            [method |-> sel.ret, success |-> ok])
                   /\ bas_method' = IF ok THEN sel.ret ELSE bas_method
                   /\ setup_out' = Returned(ok)
    /\ UNCHANGED <<import_flags, preferred_method>>
    /\ UNCHANGED <<resolveVars, parseVars, scrapeVars, orchVars, properVars, robustVars>>
    /\ UNCHANGED <<repairVars, depVars, taskVars, checkVars,
                   genericVars, healthVars>>

NextSetup == BasSetup

SpecSetup == InitSetup /\ [][NextSetup]_vars

\* ---- C11 ----
BasAvailable == {m \in {"playwright", "cdp", "selenium"} : FlagOf(m) \in import_flags}

BasCalled == {setup_calls[i].method : i \in 1..Len(setup_calls)}

\* C11: when setup has returned and the setup of the library it started
\* with failed while another library is available, that other library was
\* set up too; and False is returned only when every available library was
\* set up and failed.
Cex_C11 ==
    (setup_out # Pending /\ setup_out.exc = "") =>
        /\ (setup_calls # <<>> /\ ~setup_calls[1].success
              /\ BasAvailable \ {setup_calls[1].method} # {}) => Len(setup_calls) >= 2
        /\ setup_out.ret = FALSE => BasCalled = BasAvailable

(***************************************************************************)
(* Repair automation (scripts/repair_automation.py)                        *)
(***************************************************************************)
\* _define_repair_actions: name -> the fields the control flow reads
repair_actions ==
    [restart_comfyui        |-> [severity |-> "medium",   auto_safe |-> TRUE,  requires_restart |-> FALSE],
     fix_permissions        |-> [severity |-> "medium",   auto_safe |-> TRUE,  requires_restart |-> FALSE],
     reinstall_missing_deps |-> [severity |-> "high",     auto_safe |-> FALSE, requires_restart |-> TRUE],
     clear_python_cache     |-> [severity |-> "low",      auto_safe |-> TRUE,  requires_restart |-> FALSE],
     fix_node_dependencies  |-> [severity |-> "high",     auto_safe |-> FALSE, requires_restart |-> TRUE],
     reset_config_files     |-> [severity |-> "critical", auto_safe |-> FALSE, requires_restart |-> TRUE],
     repair_git_repos       |-> [severity |-> "medium",   auto_safe |-> TRUE,  requires_restart |-> FALSE],
     cleanup_temp_files     |-> [severity |-> "low",      auto_safe |-> TRUE,  requires_restart |-> FALSE],
     fix_virtual_env        |-> [severity |-> "critical", auto_safe |-> FALSE, requires_restart |-> TRUE],
     restore_from_backup    |-> [severity |-> "critical", auto_safe |-> FALSE, requires_restart |-> TRUE]]

\* the actions diagnose_issues and _check_filesystem_issues can recommend
Recommendable ==
    {"restart_comfyui", "fix_node_dependencies", "cleanup_temp_files",
     "fix_permissions", "reinstall_missing_deps"}

severity_order(sev) ==
    IF sev = "critical" THEN 0 ELSE IF sev = "high" THEN 1
    ELSE IF sev = "medium" THEN 2 ELSE IF sev = "low" THEN 3 ELSE 4

MaxRepairs == 2

\* diagnose_issues: one entry per action name, sorted by severity (a stable
\* sort, so actions of equal severity keep the order they were found in)
diagnose_issues ==
    {q \in UNION {[1..n -> Recommendable] : n \in 0..MaxRepairs} :
        /\ \A i, j \in 1..Len(q) : i # j => q[i] # q[j]
        /\ \A i \in 1..(Len(q) - 1) :
              severity_order(repair_actions[q[i]].severity)
                 <= severity_order(repair_actions[q[i + 1]].severity)}

RepairResult(action_name, success, changes_made) ==
    [action_name |-> action_name, success |-> success, changes_made |-> changes_made]

\* _identify_changes, on the outputs the model draws
_identify_changes(out) ==
    (IF Contains(lower(out), "installed") THEN <<"Packages installed">> ELSE <<>>)
    \o (IF Contains(lower(out), "removed") THEN <<"Files removed">> ELSE <<>>)
    \o (IF Contains(lower(out), "restarted") THEN <<"Service restarted">> ELSE <<>>)
    \o (IF Contains(lower(out), "permissions") THEN <<"Permissions updated">> ELSE <<>>)

\* what subprocess.run and _verify_success_criteria can answer for a command
Ran(returncode, verified, out) ==
    [kind |-> "exit", returncode |-> returncode, verified |-> verified, output |-> out]

RunTimeout == [kind |-> "timeout", returncode |-> -1, verified |-> FALSE, output |-> ""]

RepairRuns(action) ==
    {RunTimeout, Ran(1, TRUE, ""), Ran(0, TRUE, "Successfully installed torch")}
    \cup (IF action = "restart_comfyui" THEN {Ran(0, FALSE, "")} ELSE {})

\* action.command.format(comfyui_path=..., script_dir=...): the commands
\* written as f-strings with {{}} hold a bare {} and make format raise
\* IndexError, which the except Exception branch turns into a failed result
CommandFormats(action) == action \notin {"clear_python_cache", "repair_git_repos"}

\* execute_repair(action, dry_run) on the object state self, with run the
\* answer of the shell: the new object state and the RepairResult
execute_repair_backup_first(action, dry_run, self, config, run) ==
    LET s1 == IF config.backup_before_repair
              THEN [self EXCEPT !.backups = Append(@, action)] ELSE self
        s2 == [s1 EXCEPT !.commands = Append(@, action)]
    IN  IF dry_run
        THEN [self |-> s1, result |-> RepairResult(action, TRUE, <<>>)]
        ELSE IF ~CommandFormats(action)
        THEN [self |-> s1, result |-> RepairResult(action, FALSE, <<>>)]
        ELSE IF run.kind = "timeout"
             THEN [self |-> s2, result |-> RepairResult(action, FALSE, <<>>)]
             ELSE LET success == run.returncode = 0 /\ run.verified
                      r == RepairResult(action, success, _identify_changes(run.output))
                  IN  [self |-> [s2 EXCEPT !.repair_history = Append(@, r)],
                       result |-> r]

execute_repair(action, dry_run, self, config, run) ==
    IF dry_run
    THEN [self |-> self, result |-> RepairResult(action, TRUE, <<>>)]
    ELSE LET s1 == IF config.backup_before_repair
                   THEN [self EXCEPT !.backups = Append(@, action)] ELSE self
             s2 == [s1 EXCEPT !.commands = Append(@, action)]
         IN  IF ~CommandFormats(action)
             THEN [self |-> s1, result |-> RepairResult(action, FALSE, <<>>)]
             ELSE IF run.kind = "timeout"
             THEN [self |-> s2, result |-> RepairResult(action, FALSE, <<>>)]
             ELSE LET success == run.returncode = 0 /\ run.verified
                      r == RepairResult(action, success, _identify_changes(run.output))
                  IN  [self |-> [s2 EXCEPT !.repair_history = Append(@, r)],
                       result |-> r]

\* entries of rp_log
Input(prompt, action, answer) ==
    [ev |-> "input", prompt |-> prompt, action |-> action, answer |-> answer,
     dry_run |-> FALSE, before |-> None, after |-> None, result |-> None]

Call(action, dry_run, before, o) ==
    [ev |-> "execute_repair", prompt |-> None, action |-> action, answer |-> None,
     dry_run |-> dry_run, before |-> before, after |-> o.self, result |-> o.result]

\* what is typed at a [y/N] prompt; the code lower-cases it before the test
Answers == {"y", "n"}

RepairDone(cmd) == [cmd |-> cmd, step |-> "done", i |-> 0]

InitRepair ==
    /\ rp_config \in [dry_run_first : BOOLEAN, backup_before_repair : BOOLEAN]
    /\ selected_actions = <<>>
    /\ \/ /\ repairs_needed \in diagnose_issues
          /\ rp_pc \in {[cmd |-> c, step |-> "start", i |-> 0] :
                           c \in {"repair", "auto-repair"}}
       \/ /\ repairs_needed = <<>>
          /\ rp_pc = [cmd |-> "execute_repair", step |-> "call", i |-> 1]
    /\ rp_self = [repair_history |-> <<>>, backups |-> <<>>, commands |-> <<>>]
    /\ rp_log = <<>>
    /\ IdleResolve /\ IdleParse /\ IdleScrape /\ IdleOrch /\ IdleProper /\ IdleRobust
    /\ IdleSetup /\ IdleDep /\ IdleTask /\ IdleCheck /\ IdleGeneric /\ IdleHealth

RepairRest ==
    <<resolveVars, parseVars, scrapeVars, orchVars, properVars, robustVars, setupVars,
      depVars, taskVars, checkVars,
                   genericVars, healthVars>>

\* the dry-run option: execute_repair(action, dry_run=True) for every repair
RECURSIVE DryRunAll(_, _, _)
DryRunAll(actions, self, log) ==
    IF actions = <<>> THEN [self |-> self, log |-> log]
    ELSE LET o == execute_repair(Head(actions), TRUE, self, rp_config, RunTimeout)
         IN  DryRunAll(Tail(actions), o.self, Append(log, Call(Head(actions), TRUE, self, o)))

\* the typed "Repair numbers": lists of 1-based numbers, in range or (one
\* past the end) out of range and ignored
Selections ==
    UNION {[1..n -> 1..Len(repairs_needed)] : n \in 1..MaxRepairs}
    \cup {<<Len(repairs_needed) + 1>>, <<1, Len(repairs_needed) + 1>>}

Selected(selection) ==
    LET InRange(k) == k <= Len(repairs_needed)
        kept == SelectSeq(selection, InRange)
    IN  [i \in 1..Len(kept) |-> repairs_needed[kept[i]]]

\* interactive_repair_session up to the loop: the diagnosis, the menu and
\* the choice typed at "Select option: "
SessionChoice ==
    /\ rp_pc = [cmd |-> "repair", step |-> "start", i |-> 0]
    /\ \/ /\ repairs_needed = <<>>
          /\ rp_pc' = RepairDone("repair")
          /\ UNCHANGED <<selected_actions, rp_self, rp_log>>
       \/ /\ repairs_needed # <<>>
          /\ \E choice \in {"cancel", "dry-run", "all", "select", ""} :
               LET log1 == Append(rp_log, Input("Select option", None, choice))
               IN  IF choice = "dry-run"
                   THEN LET o == DryRunAll(repairs_needed, rp_self, log1)
                        IN  /\ rp_self' = o.self /\ rp_log' = o.log
                            /\ rp_pc' = RepairDone("repair")
                            /\ UNCHANGED selected_actions
                   ELSE IF choice = "all"
                   THEN /\ selected_actions' = repairs_needed
                        /\ rp_log' = log1
                        /\ rp_pc' = [cmd |-> "repair", step |-> "loop", i |-> 1]
                        /\ UNCHANGED rp_self
                   ELSE IF choice = "select"
                   THEN \/ \E selection \in Selections :
                             /\ selected_actions' = Selected(selection)
                             /\ rp_log' = Append(log1, Input("Repair numbers", None, selection))
                             /\ rp_pc' = [cmd |-> "repair", step |-> "loop", i |-> 1]
                             /\ UNCHANGED rp_self
                        \/ /\ rp_log' = Append(log1, Input("Repair numbers", None, "one"))
                           /\ rp_pc' = RepairDone("repair")
                           /\ UNCHANGED <<selected_actions, rp_self>>
                   ELSE /\ rp_log' = log1
                        /\ rp_pc' = RepairDone("repair")
                        /\ UNCHANGED <<selected_actions, rp_self>>
    /\ UNCHANGED <<rp_config, repairs_needed, RepairRest>>

\* the tail of one pass: the result is recorded and, after a success of an
\* action that requires a restart, the restart is offered
AfterRepair(action, o, log) ==
    IF o.result.success /\ repair_actions[action].requires_restart
    THEN \E restart \in Answers :
            LET log1 == Append(log, Input("Restart ComfyUI now?", action, restart))
            IN  IF lower(restart) = "y"
                THEN \E run \in RepairRuns("restart_comfyui") :
                        LET r == execute_repair("restart_comfyui", FALSE, o.self, rp_config, run)
                        IN  /\ rp_self' = r.self
                            /\ rp_log' = Append(log1, Call("restart_comfyui", FALSE, o.self, r))
                ELSE rp_self' = o.self /\ rp_log' = log1
    ELSE rp_self' = o.self /\ rp_log' = log

\* execute_repair(action, dry_run=False) and what follows it in the pass
RealRepair(action, self, log) ==
    \E run \in RepairRuns(action) :
        LET o == execute_repair(action, FALSE, self, rp_config, run)
        IN  AfterRepair(action, o, Append(log, Call(action, FALSE, self, o)))

\* one pass of the loop of interactive_repair_session
SessionRepair ==
    /\ rp_pc.cmd = "repair" /\ rp_pc.step = "loop" /\ rp_pc.i <= Len(selected_actions)
    /\ LET action == selected_actions[rp_pc.i]
           Pass(log) ==
               IF rp_pc.i = 1 /\ rp_config.dry_run_first
               THEN LET d == execute_repair(action, TRUE, rp_self, rp_config, RunTimeout)
                        log1 == Append(log, Call(action, TRUE, rp_self, d))
                    IN  \E confirm \in Answers :
                           LET log2 == Append(log1, Input("Proceed with actual repair?",
                                                         action, confirm))
                           IN  IF lower(confirm) # "y"
                               THEN rp_self' = d.self /\ rp_log' = log2
                               ELSE RealRepair(action, d.self, log2)
               ELSE RealRepair(action, rp_self, log)
       IN  IF ~repair_actions[action].auto_safe
           THEN \E confirm \in Answers :
                   LET log1 == Append(rp_log, Input("Execute?", action, confirm))
                   IN  IF lower(confirm) # "y"
                       THEN rp_log' = log1 /\ UNCHANGED rp_self
                       ELSE Pass(log1)
           ELSE Pass(rp_log)
    /\ rp_pc' = [rp_pc EXCEPT !.i = @ + 1]
    /\ UNCHANGED <<rp_config, repairs_needed, selected_actions, RepairRest>>

\* safe_repairs = [action for issue, action in repairs_needed if action.auto_safe]
safe_repairs_unfiltered(repairs) == repairs

safe_repairs(repairs) ==
    LET IsSafe(a) == repair_actions[a].auto_safe
    IN  SelectSeq(repairs, IsSafe)

\* main, command auto-repair: the diagnosis filtered to the auto_safe actions
AutoRepairSelect ==
    /\ rp_pc = [cmd |-> "auto-repair", step |-> "start", i |-> 0]
    /\ selected_actions' = safe_repairs(repairs_needed)
    /\ rp_pc' = [cmd |-> "auto-repair", step |-> "loop", i |-> 1]
    /\ UNCHANGED <<rp_config, repairs_needed, rp_self, rp_log, RepairRest>>

\* one pass of the loop of auto-repair
AutoRepair ==
    /\ rp_pc.cmd = "auto-repair" /\ rp_pc.step = "loop" /\ rp_pc.i <= Len(selected_actions)
    /\ LET action == selected_actions[rp_pc.i]
       IN  \E run \in RepairRuns(action) :
              LET o == execute_repair(action, FALSE, rp_self, rp_config, run)
              IN  /\ rp_self' = o.self
                  /\ rp_log' = Append(rp_log, Call(action, FALSE, rp_self, o))
    /\ rp_pc' = [rp_pc EXCEPT !.i = @ + 1]
    /\ UNCHANGED <<rp_config, repairs_needed, selected_actions, RepairRest>>

\* the loop of either command is exhausted
RepairLoopEnd ==
    /\ rp_pc.step = "loop" /\ rp_pc.i > Len(selected_actions)
    /\ rp_pc' = RepairDone(rp_pc.cmd)
    /\ UNCHANGED <<rp_config, repairs_needed, selected_actions, rp_self, rp_log, RepairRest>>

\* one action of each kind: checked for a running service, in need of a
\* confirmation and a restart, with a command that does not format, plain
CalledActions ==
    {"restart_comfyui", "reinstall_missing_deps", "clear_python_cache", "cleanup_temp_files"}

\* execute_repair called on the object directly, up to MaxRepairs times in
\* a row, with either value of dry_run
ExecuteRepair ==
    /\ rp_pc.cmd = "execute_repair" /\ rp_pc.step = "call" /\ rp_pc.i <= MaxRepairs
    /\ \E action \in CalledActions, dry_run \in BOOLEAN :
          \E run \in (IF dry_run THEN {RunTimeout} ELSE RepairRuns(action)) :
             LET o == execute_repair(action, dry_run, rp_self, rp_config, run)
             IN  /\ rp_self' = o.self
                 /\ rp_log' = Append(rp_log, Call(action, dry_run, rp_self, o))
    /\ rp_pc' = [rp_pc EXCEPT !.i = @ + 1]
    /\ UNCHANGED <<rp_config, repairs_needed, selected_actions, RepairRest>>

NextRepair ==
    \/ SessionChoice \/ SessionRepair \/ AutoRepairSelect \/ AutoRepair
    \/ RepairLoopEnd \/ ExecuteRepair

SpecRepair == InitRepair /\ [][NextRepair]_vars

\* ---- C12 ----
RealCall(e, action) ==
    e.ev = "execute_repair" /\ ~e.dry_run /\ e.action = action

\* C12: in the interactive session every execute_repair(action,
\* dry_run=False) of an action whose auto_safe flag is False comes after the
\* user answered y to the "Execute <action>?" prompt of that action, with
\* no other real execution of the action in between; and the auto-repair
\* command executes for real no action whose auto_safe flag is False.
Thm_C12 ==
    \A i \in 1..Len(rp_log) :
        LET e == rp_log[i]
        IN  (e.ev = "execute_repair" /\ ~e.dry_run /\ ~repair_actions[e.action].auto_safe) =>
               /\ rp_pc.cmd # "auto-repair"
               /\ rp_pc.cmd = "repair" =>
                     \E j \in 1..(i - 1) :
                        /\ rp_log[j].ev = "input" /\ rp_log[j].prompt = "Execute?"
                        /\ rp_log[j].action = e.action
                        /\ lower(rp_log[j].answer) = "y"
                        /\ \A k \in (j + 1)..(i - 1) : ~RealCall(rp_log[k], e.action)

\* a session in which fix_node_dependencies was confirmed and executed for
\* real and reinstall_missing_deps was declined
Witness_C12 ==
    /\ rp_pc = RepairDone("repair")
    /\ \E i \in 1..Len(rp_log) :
          RealCall(rp_log[i], "fix_node_dependencies")
    /\ \E i \in 1..Len(rp_log) :
          /\ rp_log[i].ev = "input" /\ rp_log[i].prompt = "Execute?"
          /\ rp_log[i].action = "reinstall_missing_deps" /\ rp_log[i].answer = "n"

\* ---- C13 ----
DryCalls == {i \in 1..Len(rp_log) : rp_log[i].ev = "execute_repair" /\ rp_log[i].dry_run}

\* C13: every execute_repair call with dry_run=True left the object and the
\* world as they were (no command run, no backup made, repair_history
\* unchanged) and returned success=True with an empty changes_made.
Thm_C13 ==
    \A i \in DryCalls :
        /\ rp_log[i].after = rp_log[i].before
        /\ rp_log[i].result.success
        /\ rp_log[i].result.changes_made = <<>>

\* a dry run made after an earlier real repair, with backups configured:
\* the history, the backups and the commands it had to preserve are not empty
Witness_C13 ==
    /\ rp_config.backup_before_repair
    /\ \E i \in DryCalls :
          /\ rp_log[i].before.repair_history # <<>>
          /\ rp_log[i].before.backups # <<>>
          /\ rp_log[i].before.commands # <<>>

(***************************************************************************)
(* Dependency resolver (scripts/dependency_resolver.py)                    *)
(***************************************************************************)
\* config["safe_packages"] and config["problematic_packages"], in part
safe_packages == {"torch", "numpy"}
problematic_packages == {"cupy", "onnx"}

\* the package names the scanned requirements.txt files can hold
Requirements == {"torch", "numpy", "requests", "cupy", "onnx"}

\* _parse_requirement: the install_priority given to a package name
install_priority(package_name) ==
    IF package_name \in safe_packages THEN 1
    ELSE IF package_name \in problematic_packages THEN 3
    ELSE 1

\* get_installation_plan: the missing dependencies, by (priority, name); the
\* names of one priority are listed here in name order
NameOrder == <<"cupy", "numpy", "onnx", "requests", "torch">>

get_installation_plan(deps) ==
    LET Pending1(n) == n \in deps /\ install_priority(n) = 1
        Pending2(n) == n \in deps /\ install_priority(n) = 2
        Pending3(n) == n \in deps /\ install_priority(n) = 3
    IN  SelectSeq(NameOrder, Pending1) \o SelectSeq(NameOrder, Pending2)
           \o SelectSeq(NameOrder, Pending3)

PriorityGroup(plan, priority) ==
    LET InGroup(n) == install_priority(n) = priority
    IN  SelectSeq(plan, InGroup)

\* entries of dr_log
Asked(prompt, name, answer) ==
    [ev |-> "input", prompt |-> prompt, name |-> name, answer |-> answer]

Installed(name, success) ==
    [ev |-> "install", prompt |-> None, name |-> name, answer |-> success]

DepAnswers == {"y", "", "n", "skip", "q"}
GroupAnswers == {"y", "", "n"}

\* install_dependencies(dependencies, auto_confirm): the sequences of prompts
\* and installs the loop can produce
RECURSIVE install_dependencies(_, _)
install_dependencies(deps, auto_confirm) ==
    IF deps = <<>> THEN {<<>>}
    ELSE LET dep == Head(deps)
             is_safe == dep \in safe_packages
             rest == install_dependencies(Tail(deps), auto_confirm)
             installs == {<<Installed(dep, ok)>> \o r : ok \in BOOLEAN, r \in rest}
         IN  IF ~auto_confirm /\ ~is_safe
             THEN UNION {
                    LET asked == <<Asked("Install this dependency?", dep, response)>>
                    IN  IF lower(response) \in {"n", "skip"}
                        THEN {asked \o r : r \in rest}
                        ELSE IF lower(response) \notin {"y", ""}
                        THEN {asked}
                        ELSE {asked \o i : i \in installs}
                    : response \in DepAnswers}
             ELSE installs

InitDep ==
    /\ dependencies \in SUBSET Requirements
    /\ auto_install \in BOOLEAN
    /\ dr_pc = "scan"
    /\ dr_log = <<>>
    /\ IdleResolve /\ IdleParse /\ IdleScrape /\ IdleOrch /\ IdleProper /\ IdleRobust
    /\ IdleSetup /\ IdleRepair /\ IdleTask /\ IdleCheck /\ IdleGeneric /\ IdleHealth

DepRest ==
    <<resolveVars, parseVars, scrapeVars, orchVars, properVars, robustVars, setupVars,
      repairVars, taskVars, checkVars,
                   genericVars, healthVars>>

\* auto_resolve_dependencies up to the grouping: nothing to do, or on to the
\* high priority group
ScanAndPlan ==
    /\ dr_pc = "scan"
    /\ dr_pc' = IF get_installation_plan(dependencies) = <<>> THEN "returned" ELSE "high"
    /\ UNCHANGED <<dependencies, auto_install, dr_log, DepRest>>

\* "Install high priority (safe packages)": auto_confirm=True
InstallHighPriority ==
    /\ dr_pc = "high"
    /\ LET high_priority == PriorityGroup(get_installation_plan(dependencies), 1)
       IN  IF high_priority # <<>> /\ auto_install
           THEN \E l \in install_dependencies(high_priority, TRUE) : dr_log' = dr_log \o l
           ELSE UNCHANGED dr_log
    /\ dr_pc' = "medium"
    /\ UNCHANGED <<dependencies, auto_install, DepRest>>

\* "Install medium priority with confirmation"
InstallMediumPriority ==
    /\ dr_pc = "medium"
    /\ LET medium_priority == PriorityGroup(get_installation_plan(dependencies), 2)
       IN  IF medium_priority # <<>>
           THEN \E response \in GroupAnswers :
                  LET asked == <<Asked("Install medium priority dependencies?", None, response)>>
                  IN  IF lower(response) \in {"y", ""}
                      THEN \E l \in install_dependencies(medium_priority, FALSE) :
                              dr_log' = dr_log \o asked \o l
                      ELSE dr_log' = dr_log \o asked
           ELSE UNCHANGED dr_log
    /\ dr_pc' = "low"
    /\ UNCHANGED <<dependencies, auto_install, DepRest>>

\* "Install low priority with explicit confirmation"
InstallLowPriority ==
    /\ dr_pc = "low"
    /\ LET low_priority == PriorityGroup(get_installation_plan(dependencies), 3)
       IN  IF low_priority # <<>>
           THEN \E response \in GroupAnswers :
                  LET asked == <<Asked("Install low priority dependencies?", None, response)>>
                  IN  IF lower(response) = "y"
                      THEN \E l \in install_dependencies(low_priority, FALSE) :
                              dr_log' = dr_log \o asked \o l
                      ELSE dr_log' = dr_log \o asked
           ELSE UNCHANGED dr_log
    /\ dr_pc' = "returned"
    /\ UNCHANGED <<dependencies, auto_install, DepRest>>

NextDep == ScanAndPlan \/ InstallHighPriority \/ InstallMediumPriority \/ InstallLowPriority

SpecDep == InitDep /\ [][NextDep]_vars

\* ---- C14 ----
\* C14: every pip install of a package that is not in safe_packages directly
\* follows the "Install this dependency?" prompt of that package, answered
\* with y or with the default (Enter).
Cex_C14 ==
    \A i \in 1..Len(dr_log) :
        (dr_log[i].ev = "install" /\ dr_log[i].name \notin safe_packages) =>
            /\ i > 1
            /\ dr_log[i - 1].ev = "input"
            /\ dr_log[i - 1].prompt = "Install this dependency?"
            /\ dr_log[i - 1].name = dr_log[i].name
            /\ lower(dr_log[i - 1].answer) \in {"y", ""}

(***************************************************************************)
(* One call of execute_validation_task (video_workflow_orchestrator.py)    *)
(***************************************************************************)
\* the outcomes of the fan-out, a second non-zero exit code with text on
\* stderr, and an exit 0 whose stdout holds no summary
TaskRuns(task) ==
    RunOutcomes(task)
    \cup {Exited(2, <<>>, "Traceback (most recent call last)"),
          Exited(0, <<"no workflows found">>, "")}

InitTask ==
    /\ et_task \in {validation_tasks[i] : i \in 1..Len(validation_tasks)}
    /\ fs \in TaskFiles(et_task)
    /\ et_run \in TaskRuns(et_task)
    /\ et_result = Pending
    /\ analyzer = Idle /\ model_ref = Idle /\ full_path = Idle
    /\ IdleParse /\ IdleScrape /\ IdleOrch /\ IdleProper /\ IdleRobust
    /\ IdleSetup /\ IdleRepair /\ IdleDep /\ IdleCheck /\ IdleGeneric /\ IdleHealth

\* execute_validation_task(task); a script that exits 0 may have written its
\* report into the worktree
ExecuteValidationTask ==
    /\ et_result = Pending
    /\ LET ran == {et_task.worktree_path,
                   Join(et_task.worktree_path, et_task.validator_script)} \subseteq fs
           ok == ran /\ et_run.kind = "exit" /\ et_run.returncode = 0
       IN  \E after \in (IF ok THEN {fs, fs \cup {ScriptReportFile(et_task.validator_script)}}
                         ELSE {fs}) :
              /\ \E r \in execute_validation_task(et_task, fs, et_run, after) :
                    et_result' = Returned(r)
              /\ fs' = after
    /\ UNCHANGED <<et_task, et_run>>
    /\ UNCHANGED <<analyzer, model_ref, full_path, parseVars, scrapeVars, orchVars,
                   properVars, robustVars, setupVars, repairVars, depVars, checkVars,
                   genericVars, healthVars>>

NextTask == ExecuteValidationTask

SpecTask == InitTask /\ [][NextTask]_vars

\* ---- C15 ----
\* the call was made under one of the failure causes
TaskFailureCause ==
    \/ et_task.worktree_path \notin fs
    \/ Join(et_task.worktree_path, et_task.validator_script) \notin fs
    \/ et_run.kind # "exit"
    \/ et_run.returncode # 0

\* C15: the call ends by returning a ValidationResult; under a missing
\* worktree, a missing script, a non-zero exit code, the timeout or another
\* exception the result has success=False, the four counts 0, an empty
\* report_path and a non-empty error_message; success=True is returned only
\* for a subprocess that exited with code 0.
Thm_C15 ==
    et_result # Pending =>
        /\ et_result.exc = ""
        /\ LET r == et_result.ret
           IN  /\ r.success = ~TaskFailureCause
               /\ ~r.success =>
                     /\ r.total_workflows = 0 /\ r.total_models = 0
                     /\ r.found_models = 0 /\ r.missing_models = 0
                     /\ r.report_path = ""
                     /\ r.error_message \notin {"", None}

\* the script exited with code 2 and the call returned a failure naming it
Witness_C15 ==
    /\ et_result # Pending /\ et_result.exc = ""
    /\ et_run.kind = "exit" /\ et_run.returncode = 2
    /\ ~et_result.ret.success
    /\ Contains(et_result.ret.error_message, "exit code 2")

(***************************************************************************)
(* One call of check_model_exists of the Proper or the Simple validator,   *)
(* with the model roots configured in any order                            *)
(***************************************************************************)
\* the orders the three model roots can be configured in
Permutations3(q) ==
    {<<q[i], q[j], q[k]>> : <<i, j, k>> \in
        {t \in (1..3) \X (1..3) \X (1..3) : t[1] # t[2] /\ t[1] # t[3] /\ t[2] # t[3]}}

CheckFiles ==
    { Join(model_paths[1], "checkpoints/a.ckpt"),
      Join(model_paths[1], "Check_Points/a.ckpt"),
      Join(model_paths[2], "unet/a.ckpt"),
      Join(model_paths[2], "loras/sub/a.ckpt"),
      Join(model_paths[3], "text_encoders/sub/a.ckpt"),
      model_paths[3] \o "/" }

CheckFolders == {"checkpoints", "Check-Points", "unknown"}

InitCheck ==
    /\ ck_validator \in {"proper", "simple"}
    /\ ck_model_paths \in Permutations3(model_paths)
    /\ ck_model_info \in {[folder |-> f, filename |-> "a.ckpt"] : f \in CheckFolders}
    /\ fs \in SUBSET CheckFiles
    /\ ck_out = Pending
    /\ analyzer = Idle /\ model_ref = Idle /\ full_path = Idle
    /\ IdleParse /\ IdleScrape /\ IdleOrch /\ IdleProper /\ IdleRobust
    /\ IdleSetup /\ IdleRepair /\ IdleDep /\ IdleTask /\ IdleGeneric /\ IdleHealth

\* exists, found_paths = self.check_model_exists(model_info)
CheckModelExists ==
    /\ ck_out = Pending
    /\ ck_out' \in check_model_exists_in(ck_validator, ck_model_info, ck_model_paths, fs)
    /\ UNCHANGED <<ck_validator, ck_model_paths, ck_model_info>>
    /\ UNCHANGED <<resolveVars, parseVars, scrapeVars, orchVars, properVars, robustVars,
                   setupVars, repairVars, depVars, taskVars,
                   genericVars, healthVars>>

NextCheck == CheckModelExists

SpecCheck == InitCheck /\ [][NextCheck]_vars

\* ---- C18 ----
\* the file sits in the reference's folder or in a folder variation of root
InFolders(validator, root, model_info) ==
    LET folders == IF validator = "proper"
                   THEN {model_info.folder} \cup
                        {folder_variations[i] : i \in 1..Len(folder_variations)}
                   ELSE {Simple_folder_variations(model_info.folder)[i] : i \in 1..4}
    IN  \E folder \in folders :
           PathExists(Join(Join(root, folder), model_info.filename), fs)

\* a file of that name is nested somewhere below one of the bases
NestedBelow(bases, model_info) ==
    \E base \in bases :
       \E f \in fs : startswith(f, base \o "/") /\ endswith(f, "/" \o model_info.filename)

ExistingRoots == {r \in {model_paths[i] : i \in 1..Len(model_paths)} : PathExists(r, fs)}

\* C18 (as claimed): for both validators exists is True exactly when some
\* existing root holds the file in the expected folder, in one of the
\* validator's folder variations, or nested below its checkpoints, loras or
\* vae folder.
Cex_C18 ==
    ck_out # Pending =>
        ck_out.exists =
           \E root \in ExistingRoots :
              \/ InFolders(ck_validator, root, ck_model_info)
              \/ NestedBelow({Join(root, "checkpoints"), Join(root, "loras"),
                              Join(root, "vae")}, ck_model_info)

\* C18 (amended): the same, where the nested search of the Simple validator
\* covers everything below the root and that of the Proper validator the
\* root's checkpoints, loras and vae folders; the configured order of the
\* roots does not enter the answer.
Thm_C18 ==
    ck_out # Pending =>
        ck_out.exists =
           \E root \in ExistingRoots :
              \/ InFolders(ck_validator, root, ck_model_info)
              \/ NestedBelow(IF ck_validator = "proper"
                             THEN {Join(root, "checkpoints"), Join(root, "loras"),
                                   Join(root, "vae")}
                             ELSE {root}, ck_model_info)

\* the Proper validator found the file by its nested search in the root
\* configured last, after an existing root without it and a missing root
Witness_C18 ==
    /\ ck_out # Pending /\ ck_out.exists /\ ck_validator = "proper"
    /\ ck_model_paths = <<model_paths[3], model_paths[1], model_paths[2]>>
    /\ fs = {model_paths[3] \o "/", Join(model_paths[2], "loras/sub/a.ckpt")}

(***************************************************************************)
(* generic_video_validator.py: validate_all_workflows over the candidate   *)
(* workflows discover_workflows returned                                   *)
(***************************************************************************)
GenericDocs ==
    { MkDoc("unreadable", "", "list", <<>>),
      MkDoc("dict", "nodes", "list", <<ApiSave>>),
      MkDoc("dict", "nodes", "mapping", <<ApiCkpt>>),
      MkDoc("dict", "nodes", "mapping", <<ApiSave>>),
      MkDoc("dict", "nodes", "mapping", <<ApiCkpt, ApiSave>>),
      MkDoc("dict", "nodes", "mapping", <<ApiVideo>>),
      MkDoc("dict", "nodes", "mapping", <<ApiVideo, ApiCkpt>>) }

\* discover_workflows returns the candidate paths sorted
CandidateFile(i) == Join(Join(comfyui_path, "workflows"), "flow_" \o ToString(i) \o ".json")

InitGeneric ==
    /\ gv_workflows \in
          { [i \in 1..Len(docs) |-> [workflow_file |-> CandidateFile(i), doc |-> docs[i]]] :
              docs \in NodeSeqs(GenericDocs, MaxWorkflows) }
    /\ gv_results = <<>> /\ gv_skipped = 0 /\ gv_out = Pending
    /\ fs \in SUBSET ParseFiles
    /\ analyzer = "generic"
    /\ model_ref = Idle /\ full_path = Idle
    /\ IdleParse /\ IdleScrape /\ IdleOrch /\ IdleProper /\ IdleRobust
    /\ IdleSetup /\ IdleRepair /\ IdleDep /\ IdleTask /\ IdleCheck /\ IdleHealth

GenericRest ==
    <<fs, analyzer, model_ref, full_path, parseVars, scrapeVars, orchVars, properVars,
      robustVars, setupVars, repairVars, depVars, taskVars, checkVars, healthVars>>

\* if len(result.video_indicators) == 0: skipped_count += 1; continue
Skipped(result) == Len(result.video_indicators) = 0

\* one pass of the loop: validate_workflow is not guarded, so what it raises
\* ends validate_all_workflows; the result carries the workflow's file name
GenericValidateNext ==
    /\ gv_out = Pending
    /\ Len(gv_results) + gv_skipped < Len(gv_workflows)
    /\ LET workflow == gv_workflows[Len(gv_results) + gv_skipped + 1]
           result == Generic_validate_workflow(workflow.doc, fs)
       IN  IF result.exc # ""
           THEN /\ gv_out' = result
                /\ UNCHANGED <<gv_results, gv_skipped>>
           ELSE IF Skipped(result.ret)
           THEN /\ gv_skipped' = gv_skipped + 1
                /\ UNCHANGED <<gv_results, gv_out>>
           ELSE /\ gv_results' = Append(gv_results,
                                    [workflow_file |-> workflow.workflow_file,
                                     result |-> result.ret])
                /\ UNCHANGED <<gv_skipped, gv_out>>
    /\ UNCHANGED <<gv_workflows, GenericRest>>

\* return results
GenericReturn ==
    /\ gv_out = Pending
    /\ Len(gv_results) + gv_skipped = Len(gv_workflows)
    /\ gv_out' = Returned(gv_results)
    /\ UNCHANGED <<gv_workflows, gv_results, gv_skipped, GenericRest>>

NextGeneric == GenericValidateNext \/ GenericReturn

SpecGeneric == InitGeneric /\ [][NextGeneric]_vars

\* ---- C20 ----
\* the candidate workflow an entry of the results was built from
CandidateOf(entry) ==
    CHOOSE w \in {gv_workflows[i] : i \in 1..Len(gv_workflows)} :
        w.workflow_file = entry.workflow_file

\* C20: a workflow is in the results validate_all_workflows builds only if
\* is_video_workflow classified it as video, that is, found at least
\* MinVideoIndicators video indicators in it; every other candidate is skipped.
Cex_C20 ==
    \A i \in 1..Len(gv_results) :
        LET iv == is_video_workflow(CandidateOf(gv_results[i]).doc)
        IN  /\ iv.exc = "" /\ iv.ret.is_video
            /\ Len(gv_results[i].result.video_indicators) >= MinVideoIndicators

(***************************************************************************)
(* generic_video_validator.py: the part low-confidence references play in  *)
(* validate_workflow                                                       *)
(***************************************************************************)
low_confidence_fields ==
    {low_confidence_patterns[i].field : i \in 1..Len(low_confidence_patterns)}

\* the inputs without the keys in fields
RECURSIVE InputsWithout(_, _, _)
InputsWithout(inputs, fields, i) ==
    IF i > Len(inputs.keys) THEN [shape |-> inputs.shape, keys |-> <<>>, vals |-> <<>>]
    ELSE LET rest == InputsWithout(inputs, fields, i + 1)
         IN  IF inputs.keys[i] \in fields THEN rest
             ELSE [rest EXCEPT !.keys = <<inputs.keys[i]>> \o @,
                               !.vals = <<inputs.vals[i]>> \o @]

\* the same workflow with no low-confidence field in any node's inputs
WithoutLowConfidence(doc) ==
    [doc EXCEPT !.elems =
        [i \in 1..Len(doc.elems) |->
            [doc.elems[i] EXCEPT !.inputs = InputsWithout(@, low_confidence_fields, 1)]]]

\* ---- C21 ----
\* C21: in the generic validator only references with confidence >= 0.7 are
\* counted: model_references holds no low-confidence reference,
\* missing_models = total_models - found_models, and a reference from a
\* low-confidence field does not affect the result, which is the one
\* validate_workflow gives for the same workflow without those fields.
Cex_C21 ==
    (analyzer = "generic" /\ wt_result # Pending) =>
        /\ wt_result.exc = "" =>
              /\ \A i \in 1..Len(wt_result.ret.model_references) :
                    wt_result.ret.model_references[i].confidence >= ConfidenceThreshold
              /\ wt_result.ret.total_models = Len(wt_result.ret.model_references)
              /\ wt_result.ret.missing_models =
                    wt_result.ret.total_models - wt_result.ret.found_models
        /\ LET counted == Generic_validate_workflow(WithoutLowConfidence(data), fs)
           IN  counted.exc = "" => wt_result = counted

(***************************************************************************)
(* ltx_workflow_validator.py: one call of extract_model_references on a    *)
(* workflow whose nodes each name at most one model file per input field   *)
(***************************************************************************)
ApiLora       == MkNode(TRUE, FALSE, 0, "", "LoraLoader", <<>>,
                        DictInputs(<<"lora_name">>, <<"b.safetensors">>), 0, 0)
ApiLtxLora    == MkNode(TRUE, FALSE, 0, "", "LTXVLoRALoader", <<>>,
                        DictInputs(<<"lora_name", "model_name">>,
                                   <<"c.safetensors", "ltx.safetensors">>), 0, 0)
ApiLtxLoader  == MkNode(TRUE, FALSE, 0, "", "LTXVLoader", <<>>,
                        DictInputs(<<"model_name", "vae_name">>,
                                   <<"ltx.safetensors", "None">>), 0, 0)
ApiLtxControl == MkNode(TRUE, FALSE, 0, "", "LTXVControlLoader", <<>>,
                        DictInputs(<<"model_name">>, <<"cn.safetensors">>), 0, 0)
ApiVae        == MkNode(TRUE, FALSE, 0, "", "VAELoader", <<>>,
                        DictInputs(<<"vae_name">>, <<"v.pt">>), 0, 0)

LtxExtractNodes ==
    {ApiCkpt, ApiSave, ApiLora, ApiLtxLora, ApiLtxLoader, ApiLtxControl, ApiVae, StrNode("x")}

LtxExtractDocs ==
    { MkDoc("unreadable", "", "list", <<>>),
      MkDoc("dict", "nodes", "list", <<ApiLora>>) }
    \cup { MkDoc("dict", "nodes", "mapping", e) : e \in NodeSeqs(LtxExtractNodes, MaxNodes) }

InitLtxExtract ==
    /\ data \in LtxExtractDocs
    /\ models = Pending
    /\ analyzer = "ltx"
    /\ parsed = Idle /\ simple_out = Idle /\ wt_result = Idle
    /\ workflows = Idle /\ all_results = Idle /\ summary = Idle /\ main_out = Idle
    /\ fs = Idle /\ model_ref = Idle /\ full_path = Idle
    /\ IdleScrape /\ IdleOrch /\ IdleRobust /\ IdleTool

\* references = self.extract_model_references(workflow_data), on what
\* parse_workflow returned for the file: {} when it could not be read
LTXExtract ==
    /\ models = Pending
    /\ models' = (IF data.kind = "unreadable"
                  THEN LTX_extract_model_references(MkDoc("dict", "", "list", <<>>))
                  ELSE LTX_extract_model_references(data))
    /\ UNCHANGED <<data, analyzer, parsed, simple_out, wt_result, workflows, all_results,
                   summary, main_out, fs, model_ref, full_path,
                   scrapeVars, orchVars, robustVars, toolVars>>

NextLtxExtract == LTXExtract

SpecLtxExtract == InitLtxExtract /\ [][NextLtxExtract]_vars

\* ---- C22 ----
\* the references extracted for input field f of node k: within a node the
\* modelled input values differ from field to field, so the node id and the
\* model name identify the (node, input field) pair
RefsOfField(refs, nodes, k, f) ==
    {i \in 1..Len(refs) : /\ refs[i].node_id = nodes.keys[k]
                          /\ refs[i].model_name = nodes.vals[k].inputs.vals[f]}

\* C22: extract_model_references of the LTX validator returns at most one
\* ModelReference per (node, input field) pair, so a node that names a
\* single model file in one input field contributes exactly one reference
\* to total_models.
Cex_C22 ==
    (analyzer = "ltx" /\ models.exc = "" /\ data.kind = "dict") =>
        LET nodes == Held(data)
        IN  \A k \in 1..Len(nodes.keys) :
              \A f \in 1..Len(nodes.vals[k].inputs.keys) :
                 Cardinality(RefsOfField(models.ret, nodes, k, f)) <= 1

(***************************************************************************)
(* scripts/health_monitor.py: run_health_check, _generate_alerts and the   *)
(* monitoring loop.  The clock counts ticks, hour of them to the hour;     *)
(* datetime.now() reads it, and it can advance between two reads.          *)
(***************************************************************************)
hour == 4
day == 24 * hour
MaxChecks == 2

HealthStatus(name, status, message) == [name |-> name, status |-> status, message |-> message]

\* what each of the four checks can report: the statuses and messages its
\* branches set
check_comfyui_service ==
    { HealthStatus("ComfyUI Service", "HEALTHY", "ComfyUI running with 1 process(es), API accessible"),
      HealthStatus("ComfyUI Service", "CRITICAL", "ComfyUI service not running") }
check_custom_nodes_health ==
    { HealthStatus("Custom Nodes", "HEALTHY", "All 2 custom nodes appear healthy"),
      HealthStatus("Custom Nodes", "CRITICAL", "Custom nodes directory not found"),
      HealthStatus("Custom Nodes", "CRITICAL", "Critical: 2/2 nodes have serious issues") }
check_system_resources ==
    { HealthStatus("System Resources", "WARNING", "Resource usage alerts: CPU usage high: 95.0%") }
check_api_connectivity ==
    { HealthStatus("API Connectivity", "HEALTHY", "API connected successfully, 10 nodes reported"),
      HealthStatus("API Connectivity", "CRITICAL", "Cannot connect to API: Connection refused") }

\* the keys of results, in insertion order
checks == <<"service", "custom_nodes", "system_resources", "api_connectivity">>

HealthResults ==
    { [service |-> s, custom_nodes |-> c, system_resources |-> r, api_connectivity |-> a] :
        s \in check_comfyui_service, c \in check_custom_nodes_health,
        r \in check_system_resources, a \in check_api_connectivity }

\* datetime.isoformat() and datetime.fromisoformat() on a tick count
isoformat(t) == ToString(t)
fromisoformat(text) == DigitsValue(text, 0)

\* how far the clock can move between two successive reads inside a call
ReadGaps == {0, 1}

\* [a for a in self.alerts if fromisoformat(a["timestamp"]) > now - timedelta(hours=1)]
recent_alerts_none(alerts, now) == <<>>

recent_alerts(alerts, now) ==
    SelectSeq(alerts, LAMBDA a : fromisoformat(a.timestamp) > now - hour)

Repeated(alerts, name, message) ==
    \E i \in 1..Len(alerts) : alerts[i].component = name /\ alerts[i].message = message

\* the loop of _generate_alerts from component i on: the alert's timestamp
\* is one read of the clock, the test for recent alerts is a later one.
\* The set of [alerts, clock] the loop can end with.  The field 'checked'
\* is not a key of the dict: it keeps the clock reading of the test.
RECURSIVE _generate_alerts(_, _, _, _)
_generate_alerts(health_results, alerts, clock, i) ==
    IF i > Len(checks) THEN {[alerts |-> alerts, clock |-> clock]}
    ELSE LET name == checks[i]
             status == health_results[name]
         IN  IF status.status # "CRITICAL"
             THEN _generate_alerts(health_results, alerts, clock, i + 1)
             ELSE UNION {
                    LET now == clock + gap
                        alert == [timestamp |-> isoformat(clock), component |-> name,
                                  severity |-> "CRITICAL", message |-> status.message,
                                  checked |-> now]
                    IN  IF ~Repeated(recent_alerts(alerts, now), name, status.message)
                        THEN _generate_alerts(health_results, Append(alerts, alert), now, i + 1)
                        ELSE _generate_alerts(health_results, alerts, now, i + 1)
                    : gap \in ReadGaps }

\* self.alerts = [a for a in self.alerts if fromisoformat(a["timestamp"]) > cutoff]
cleanup_old_alerts(alerts, now) ==
    SelectSeq(alerts, LAMBDA a : fromisoformat(a.timestamp) > now - day)

\* time.sleep(self.check_interval): the configured interval, in ticks
SleepTicks == {hour - 1, day}

InitHealth ==
    /\ hm_clock = 0 /\ hm_alerts = <<>> /\ hm_history = 0
    /\ hm_last = Idle
    /\ IdleResolve /\ IdleParse /\ IdleScrape /\ IdleOrch /\ IdleProper /\ IdleRobust
    /\ IdleSetup /\ IdleRepair /\ IdleDep /\ IdleTask /\ IdleCheck /\ IdleGeneric

HealthRest ==
    <<resolveVars, parseVars, scrapeVars, orchVars, properVars, robustVars,
      setupVars, repairVars, depVars, taskVars, checkVars, genericVars>>

\* one call of run_health_check, as the check command makes it
RunHealthCheck ==
    /\ hm_history < MaxChecks
    /\ \E health_results \in HealthResults :
         \E o \in _generate_alerts(health_results, hm_alerts, hm_clock, 1) :
            /\ hm_alerts' = o.alerts
            /\ hm_clock' = o.clock
            /\ hm_last' = health_results
    /\ hm_history' = hm_history + 1
    /\ UNCHANGED HealthRest

\* one pass of monitoring_loop: the check, the cleanup of alerts older than
\* 24 hours, and the sleep
MonitoringLoop ==
    /\ hm_history < MaxChecks
    /\ \E health_results \in HealthResults, interval \in SleepTicks :
         \E o \in _generate_alerts(health_results, hm_alerts, hm_clock, 1) :
            /\ hm_alerts' = cleanup_old_alerts(o.alerts, o.clock)
            /\ hm_clock' = o.clock + interval
            /\ hm_last' = health_results
    /\ hm_history' = hm_history + 1
    /\ UNCHANGED HealthRest

NextHealth == RunHealthCheck \/ MonitoringLoop

SpecHealth == InitHealth /\ [][NextHealth]_vars

\* ---- C23 ----
SameAlert(a, b) == a.component = b.component /\ a.message = b.message

AlertsOf(alerts) == {alerts[i] : i \in 1..Len(alerts)}

\* C23 as claimed: over any sequence of health checks the alerts list never
\* holds two alerts with equal component and message whose timestamps are
\* less than one hour apart.
Cex_C23 ==
    \A i, j \in 1..Len(hm_alerts) :
        (i < j /\ SameAlert(hm_alerts[i], hm_alerts[j])) =>
            fromisoformat(hm_alerts[j].timestamp) - fromisoformat(hm_alerts[i].timestamp) >= hour

\* C23, amended: an alert is appended only for a component whose status is
\* CRITICAL in the check that appends it, with that status's message, and
\* only if no alert with the same component and message has a timestamp
\* within the hour before the clock reading of the test, a reading taken
\* after the new alert's own timestamp; so of two alerts with equal component
\* and message the earlier one's timestamp lies at least one hour before the
\* reading the later one was tested at.
Thm_C23 ==
    /\ [](\A i, j \in 1..Len(hm_alerts) :
            /\ fromisoformat(hm_alerts[j].timestamp) <= hm_alerts[j].checked
            /\ (i < j /\ SameAlert(hm_alerts[i], hm_alerts[j])) =>
                  fromisoformat(hm_alerts[i].timestamp) <= hm_alerts[j].checked - hour)
    /\ [][\A a \in AlertsOf(hm_alerts') \ AlertsOf(hm_alerts) :
            /\ hm_last'[a.component].status = "CRITICAL"
            /\ hm_last'[a.component].message = a.message
            /\ a.severity = "CRITICAL"]_vars

\* two alerts for the stopped service whose timestamps are less than an
\* hour apart: the second was stamped just before the hour was over and
\* tested just after
Witness_C23 ==
    /\ Len(hm_alerts) = 2
    /\ SameAlert(hm_alerts[1], hm_alerts[2])
    /\ hm_alerts[2].component = "service"
    /\ fromisoformat(hm_alerts[2].timestamp) - fromisoformat(hm_alerts[1].timestamp) = hour - 1
    /\ hm_alerts[2].checked - fromisoformat(hm_alerts[1].timestamp) = hour

====
